---- MODULE Spec2Model ----
(***************************************************************************)
(* A model of the futsal world-cup dashboard (alejoburu14/dash_futsal_wc): *)
(* the memoizing fetch layer of data.py as wired by app.py, the match      *)
(* ordering sort_matches, the colour selection pick_colors, and the filter *)
(* callbacks and the detail handler _load_match of pages/performance.py.   *)
(*                                                                         *)
(* Python strings whose characters matter (names, dates, colours) are      *)
(* tuples of one-character strings; identifiers that are only compared for *)
(* equality are TLA+ strings.                                              *)
(***************************************************************************)
EXTENDS Integers, Sequences, FiniteSets, TLC

VARIABLES
    sm_in,      \* sort_matches: the DataFrame passed in (a sequence of rows)
    sm_out,     \* sort_matches: the DataFrame returned
    sm_done,    \* sort_matches has been applied to sm_in
    st_in,      \* sort_matches._stage: the StageName passed in (a string or None)
    st_out,     \* sort_matches._stage: the rank returned
    st_done,    \* _stage has been applied to st_in
    pc_home,    \* pick_colors: home_name
    pc_away,    \* pick_colors: away_name
    pc_store,   \* pick_colors: df_colors, as load_team_colors_db builds it (or None)
    pc_out,     \* pick_colors: the pair returned, with the number of substitutions made
    pc_done,    \* pick_colors has been applied
    now,            \* the server's clock, in seconds
    cacheStore,     \* the entries held by the Flask-Caching backend
    lastFetch,      \* per query and arguments, when its function body last ran
    calls,          \* the cached-query calls made by the latest handler
    authenticated,  \* current_user.is_authenticated
    login_out,      \* what do_signin returned last, with what was submitted to it
    ADMIN_USER,     \* auth.ADMIN_USER: the user name read from the environment at import
    ADMIN_PASS,     \* auth.ADMIN_PASS: the password read from the environment at import
    matchesStore,   \* pf-matches-store: the catalog the layout handed to the page
    lay_out,        \* what layout() of the performance page did last
    lm_out,         \* what _load_match did last, with the events it had fetched
    nTicks,         \* clock advances so far
    nRequests,      \* handler invocations so far
    options,        \* pf-match options: what _update_match_options returned last
    umo_in,         \* the filters of the _update_match_options call just made
    selected,       \* pf-selected-match: the id _remember_match stored
    rmv_out,        \* what the _restore_match_value call just made returned
    pf_match,       \* pf-match value: the match the dropdown shows ("" for none)
    pending,        \* the callbacks of the performance page that are due to run
    gm_in,      \* get_matches: the response of the remote to its request
    gm_out,     \* get_matches: what the function body gave
    gm_done,    \* the body of get_matches has run on gm_in
    gp_in,      \* get_players_for_teams: the response of the remote per team id
    gp_out,     \* get_players_for_teams: what the function body gave
    gp_done,    \* the body of get_players_for_teams has run on gp_in
    requests    \* the calls of get_matches in progress, one per request served

sortVars == <<sm_in, sm_out, sm_done, st_in, st_out, st_done>>
colorVars == <<pc_home, pc_away, pc_store, pc_out, pc_done>>
appVars == <<now, cacheStore, lastFetch, calls, authenticated, login_out, ADMIN_USER, ADMIN_PASS,
             matchesStore, lay_out, lm_out, nTicks, nRequests>>
filterVars == <<options, umo_in, selected, rmv_out, pf_match, pending>>
queryVars == <<gm_in, gm_out, gm_done, gp_in, gp_out, gp_done, requests>>
vars == <<sortVars, colorVars, appVars, filterVars, queryVars>>

(***************************************************************************)
(* Characters and strings                                                  *)
(***************************************************************************)
UpperLetters ==
    <<"A","B","C","D","E","F","G","H","I","J","K","L","M",
      "N","O","P","Q","R","S","T","U","V","W","X","Y","Z">>

LowerLetters ==
    <<"a","b","c","d","e","f","g","h","i","j","k","l","m",
      "n","o","p","q","r","s","t","u","v","w","x","y","z">>

DigitChars == <<"0","1","2","3","4","5","6","7","8","9">>

IndexIn(c, tbl) ==
    IF \E i \in 1..Len(tbl) : tbl[i] = c
    THEN CHOOSE i \in 1..Len(tbl) : tbl[i] = c
    ELSE 0

Punctuation == {" ", "!", "#", "+", "-", ".", ":"}

CharSet ==
    {UpperLetters[i] : i \in 1..26} \cup {LowerLetters[i] : i \in 1..26}
        \cup {DigitChars[i] : i \in 1..10} \cup Punctuation

\* ord(c), str.upper() and str.lower() of every character the model uses
OrdOf ==
    [c \in CharSet |->
        IF IndexIn(c, UpperLetters) > 0 THEN 64 + IndexIn(c, UpperLetters)
        ELSE IF IndexIn(c, LowerLetters) > 0 THEN 96 + IndexIn(c, LowerLetters)
        ELSE IF IndexIn(c, DigitChars) > 0 THEN 47 + IndexIn(c, DigitChars)
        ELSE IF c = " " THEN 32
        ELSE IF c = "!" THEN 33
        ELSE IF c = "#" THEN 35
        ELSE IF c = "+" THEN 43
        ELSE IF c = "-" THEN 45
        ELSE IF c = "." THEN 46
        ELSE 58]

UpperOf ==
    [c \in CharSet |->
        IF IndexIn(c, LowerLetters) > 0 THEN UpperLetters[IndexIn(c, LowerLetters)] ELSE c]

LowerOf ==
    [c \in CharSet |->
        IF IndexIn(c, UpperLetters) > 0 THEN LowerLetters[IndexIn(c, UpperLetters)] ELSE c]

IsLetter(c) == OrdOf[UpperOf[c]] \in 65..90
IsDigit(c) == OrdOf[c] \in 48..57
IsSpace(c) == c = " "
Ord(c) == OrdOf[c]
UpperChar(c) == UpperOf[c]
LowerChar(c) == LowerOf[c]

StrUpper(s) == [i \in 1..Len(s) |-> UpperChar(s[i])]
StrLower(s) == [i \in 1..Len(s) |-> LowerChar(s[i])]

\* Python's < on str: lexicographic by code point, a proper prefix is smaller
StrLess(a, b) ==
    \E k \in 1..(Len(b)) :
        /\ k <= Len(a) + 1
        /\ \A j \in 1..(k - 1) : a[j] = b[j]
        /\ \/ k = Len(a) + 1
           \/ (k <= Len(a) /\ Ord(a[k]) < Ord(b[k]))

\* the literal lit occurs in s starting at position i
OccursAt(s, lit, i) ==
    /\ i >= 1
    /\ i + Len(lit) - 1 <= Len(s)
    /\ \A j \in 1..Len(lit) : s[i + j - 1] = lit[j]

\* re.search(lit, s) for a literal pattern
Contains(s, lit) == \E i \in 1..Len(s) : OccursAt(s, lit, i)

\* number of whitespace characters of s starting at position i (regex \s*)
RECURSIVE SpaceRun(_, _)
SpaceRun(s, i) ==
    IF i <= Len(s) /\ IsSpace(s[i]) THEN 1 + SpaceRun(s, i + 1) ELSE 0

\* str.strip(): without leading and trailing whitespace
StrStrip(s) ==
    IF \A i \in 1..Len(s) : IsSpace(s[i]) THEN <<>>
    ELSE LET first == CHOOSE i \in 1..Len(s) :
                          ~IsSpace(s[i]) /\ \A j \in 1..(i - 1) : IsSpace(s[j])
             last  == CHOOSE i \in 1..Len(s) :
                          ~IsSpace(s[i]) /\ \A j \in (i + 1)..Len(s) : IsSpace(s[j])
         IN  SubSeq(s, first, last)

\* str.lstrip("#"): without leading "#" characters
RECURSIVE LStripHash(_)
LStripHash(s) == IF s # <<>> /\ Head(s) = "#" THEN LStripHash(Tail(s)) ELSE s

\* int(c, 16) of one hexadecimal digit, in either case
HexDigit(c) == IF IsDigit(c) THEN Ord(c) - 48 ELSE Ord(LowerChar(c)) - 87

(***************************************************************************)
(* sort_matches (data.py)                                                  *)
(***************************************************************************)
\* re.search(r"Group\s+([A-Z])", s, flags=re.I) matches at position i:
\* "group" in any case, at least one whitespace, then a letter
GroupMatchAt(s, i) ==
    /\ OccursAt(StrLower(s), <<"g","r","o","u","p">>, i)
    /\ SpaceRun(s, i + 5) >= 1
    /\ i + 5 + SpaceRun(s, i + 5) <= Len(s)
    /\ IsLetter(s[i + 5 + SpaceRun(s, i + 5)])

NoGroupRank == 999

\* _g giving 0 where the name holds no group letter
G_NoGroupFirst(s) ==
    IF \E i \in 1..Len(s) : GroupMatchAt(s, i)
    THEN LET i == CHOOSE k \in 1..Len(s) :
                     GroupMatchAt(s, k) /\ \A j \in 1..(k - 1) : ~GroupMatchAt(s, j)
             c == s[i + 5 + SpaceRun(s, i + 5)]
         IN  Ord(UpperChar(c)) - 64
    ELSE 0

\* _g: 1 for A, 2 for B, ..., of the leftmost match; 999 without a match
G(s) ==
    IF \E i \in 1..Len(s) : GroupMatchAt(s, i)
    THEN LET i == CHOOSE k \in 1..Len(s) :
                     GroupMatchAt(s, k) /\ \A j \in 1..(k - 1) : ~GroupMatchAt(s, j)
             c == s[i + 5 + SpaceRun(s, i + 5)]
         IN  Ord(UpperChar(c)) - 64
    ELSE NoGroupRank

\* re.search(r"round\s*of\s*16|sixteen", s)
RoundOf16At(s, i) ==
    /\ OccursAt(s, <<"r","o","u","n","d">>, i)
    /\ LET j == i + 5 + SpaceRun(s, i + 5) IN
         /\ OccursAt(s, <<"o","f">>, j)
         /\ OccursAt(s, <<"1","6">>, j + 2 + SpaceRun(s, j + 2))

MatchesRoundOf16(s) ==
    \/ \E i \in 1..Len(s) : RoundOf16At(s, i)
    \/ Contains(s, <<"s","i","x","t","e","e","n">>)

StageGroup == 100
StageRound16 == 200
StageQuarter == 300
StageSemi == 400
StageThird == 500
StageFinal == 600
StageUnknown == 700

\* Python's None where a string is expected
None == <<"None">>

\* _stage with the pattern of the final searched first
Stage_FinalFirst(name) ==
    LET s == StrLower(IF name = None THEN <<>> ELSE name) IN
    IF Contains(s, <<"f","i","n","a","l">>) THEN StageFinal
    ELSE IF Contains(s, <<"g","r","o","u","p">>) THEN StageGroup
    ELSE IF MatchesRoundOf16(s) THEN StageRound16
    ELSE IF Contains(s, <<"q","u","a","r","t","e","r">>) THEN StageQuarter
    ELSE IF Contains(s, <<"s","e","m","i">>) THEN StageSemi
    ELSE IF Contains(s, <<"t","h","i","r","d">>) \/ Contains(s, <<"3","r","d">>)
         THEN StageThird
    ELSE StageUnknown

\* _stage: (s or "").lower(), then the first pattern of the ordered list found in it
Stage(name) ==
    LET s == StrLower(IF name = None THEN <<>> ELSE name) IN
    IF Contains(s, <<"g","r","o","u","p">>) THEN StageGroup
    ELSE IF MatchesRoundOf16(s) THEN StageRound16
    ELSE IF Contains(s, <<"q","u","a","r","t","e","r">>) THEN StageQuarter
    ELSE IF Contains(s, <<"s","e","m","i">>) THEN StageSemi
    ELSE IF Contains(s, <<"t","h","i","r","d">>) \/ Contains(s, <<"3","r","d">>)
         THEN StageThird
    ELSE IF Contains(s, <<"f","i","n","a","l">>) THEN StageFinal
    ELSE StageUnknown

\* df.assign(_g=df["GroupName"].map(_g), _s=df["StageName"].map(_stage)):
\* every row with its two temporary rank columns
RECURSIVE AssignRanks(_)
AssignRanks(df) ==
    IF df = <<>> THEN <<>>
    ELSE <<[row |-> Head(df), _g |-> G(Head(df).GroupName),
            _s |-> Stage(Head(df).StageName)]>> \o AssignRanks(Tail(df))

\* KeyLess with the stage rank compared before the group rank
KeyLess_StageFirst(a, b) ==
    \/ a._s < b._s
    \/ a._s = b._s /\ a._g < b._g
    \/ a._g = b._g /\ a._s = b._s /\ StrLess(a.row.KickoffDate, b.row.KickoffDate)
    \/ a._g = b._g /\ a._s = b._s /\ a.row.KickoffDate = b.row.KickoffDate
          /\ StrLess(a.row.MatchName, b.row.MatchName)

\* KeyLess with the kickoff date compared before the stage rank
KeyLess_DateBeforeStage(a, b) ==
    \/ a._g < b._g
    \/ a._g = b._g /\ StrLess(a.row.KickoffDate, b.row.KickoffDate)
    \/ a._g = b._g /\ a.row.KickoffDate = b.row.KickoffDate /\ a._s < b._s
    \/ a._g = b._g /\ a._s = b._s /\ a.row.KickoffDate = b.row.KickoffDate
          /\ StrLess(a.row.MatchName, b.row.MatchName)

\* KeyLess without the final MatchName key
KeyLess_NoName(a, b) ==
    \/ a._g < b._g
    \/ a._g = b._g /\ a._s < b._s
    \/ a._g = b._g /\ a._s = b._s /\ StrLess(a.row.KickoffDate, b.row.KickoffDate)

\* the ascending order of sort_values(by=["_g","_s","KickoffDate","MatchName"])
KeyLess(a, b) ==
    \/ a._g < b._g
    \/ a._g = b._g /\ a._s < b._s
    \/ a._g = b._g /\ a._s = b._s /\ StrLess(a.row.KickoffDate, b.row.KickoffDate)
    \/ a._g = b._g /\ a._s = b._s /\ a.row.KickoffDate = b.row.KickoffDate
          /\ StrLess(a.row.MatchName, b.row.MatchName)

\* InsertRow that keeps one row per sort key: a row whose key is already there
\* takes the place of the row that has it
RECURSIVE InsertRow_OnePerKey(_, _)
InsertRow_OnePerKey(r, sorted) ==
    IF sorted = <<>> THEN <<r>>
    ELSE IF KeyLess(r, Head(sorted)) THEN <<r>> \o sorted
    ELSE IF ~KeyLess(Head(sorted), r) THEN <<r>> \o Tail(sorted)
    ELSE <<Head(sorted)>> \o InsertRow_OnePerKey(r, Tail(sorted))

\* rows are placed by ascending key; rows with equal keys keep their input order
RECURSIVE InsertRow(_, _)
InsertRow(r, sorted) ==
    IF sorted = <<>> THEN <<r>>
    ELSE IF KeyLess(r, Head(sorted)) THEN <<r>> \o sorted
    ELSE <<Head(sorted)>> \o InsertRow(r, Tail(sorted))

RECURSIVE SortValues(_)
SortValues(ranked) ==
    IF ranked = <<>> THEN <<>>
    ELSE InsertRow(ranked[Len(ranked)], SortValues(SubSeq(ranked, 1, Len(ranked) - 1)))

\* .drop(columns=["_g","_s"])
RECURSIVE DropRanks(_)
DropRanks(ranked) ==
    IF ranked = <<>> THEN <<>> ELSE <<Head(ranked).row>> \o DropRanks(Tail(ranked))

\* sort_matches: an empty frame is returned as is
SortMatches(df) == IF df = <<>> THEN df ELSE DropRanks(SortValues(AssignRanks(df)))

(***************************************************************************)
(* load_team_colors_db and pick_colors (data.py)                           *)
(***************************************************************************)
\* the lookup key of a team name: upper-cased and stripped
KeyName(name) == StrStrip(StrUpper(name))

\* load_team_colors_db: the rows of team_colors with their lookup key
RECURSIVE LoadTeamColors(_)
LoadTeamColors(table) ==
    IF table = <<>> THEN <<>>
    ELSE <<[name |-> Head(table).name, home_color |-> Head(table).home_color,
            away_color |-> Head(table).away_color,
            key_name |-> KeyName(Head(table).name)]>> \o LoadTeamColors(Tail(table))

Color_1f77b4 == <<"#","1","f","7","7","b","4">>
Color_2ca02c == <<"#","2","c","a","0","2","c">>

DefaultColors == [home |-> Color_1f77b4, away |-> Color_2ca02c]

\* the rows of df_colors whose key_name equals the key of name, in table order
Hits(name, df_colors) ==
    SelectSeq(df_colors.rows, LAMBDA r : r.key_name = KeyName(name))

\* _lookup with the two default colours exchanged
Lookup_DefaultsSwapped(name, df_colors) ==
    IF df_colors.isNone \/ df_colors.rows = <<>> THEN [home |-> Color_2ca02c, away |-> Color_1f77b4]
    ELSE IF Hits(name, df_colors) = <<>> THEN [home |-> Color_2ca02c, away |-> Color_1f77b4]
    ELSE [home |-> Hits(name, df_colors)[1].home_color,
          away |-> Hits(name, df_colors)[1].away_color]

\* _lookup: the colours of the first row found, the defaults without a row
Lookup(name, df_colors) ==
    IF df_colors.isNone \/ df_colors.rows = <<>> THEN DefaultColors
    ELSE IF Hits(name, df_colors) = <<>> THEN DefaultColors
    ELSE [home |-> Hits(name, df_colors)[1].home_color,
          away |-> Hits(name, df_colors)[1].away_color]

\* rgb(h): the three channels of "#rrggbb"
Rgb(h) ==
    LET x == LStripHash(h) IN
    << 16 * HexDigit(x[1]) + HexDigit(x[2]),
       16 * HexDigit(x[3]) + HexDigit(x[4]),
       16 * HexDigit(x[5]) + HexDigit(x[6]) >>

Abs(n) == IF n < 0 THEN -n ELSE n

\* abs(rgb(c1) - rgb(c2)).sum()
RgbDistance(c1, c2) ==
    LET a == Rgb(c1)
        b == Rgb(c2)
    IN  Abs(a[1] - b[1]) + Abs(a[2] - b[2]) + Abs(a[3] - b[3])

SimilarThreshold == 90

\* _similar with the comparison turned round
Similar_Reversed(c1, c2) == RgbDistance(c1, c2) > SimilarThreshold

\* _similar
Similar(c1, c2) == RgbDistance(c1, c2) < SimilarThreshold

\* pick_colors that never substitutes the secondary colour
PickColors_NoSubstitution(home_name, away_name, df_colors) ==
    [hc |-> Lookup(home_name, df_colors).home,
     ac |-> Lookup(away_name, df_colors).home,
     substitutions |-> 0]

\* pick_colors that replaces the home colour when the primaries are similar
PickColors_SubstitutesHome(home_name, away_name, df_colors) ==
    LET ph == Lookup(home_name, df_colors)
        pa == Lookup(away_name, df_colors)
    IN  IF Similar(ph.home, pa.home)
        THEN [hc |-> ph.away, ac |-> pa.home, substitutions |-> 1]
        ELSE [hc |-> ph.home, ac |-> pa.home, substitutions |-> 0]

\* pick_colors: both primaries, the away team's secondary when they are similar
PickColors(home_name, away_name, df_colors) ==
    LET ph == Lookup(home_name, df_colors)
        pa == Lookup(away_name, df_colors)
        hc == ph.home
        ac == pa.home
    IN  IF Similar(hc, ac)
        THEN [hc |-> hc, ac |-> pa.away, substitutions |-> 1]
        ELSE [hc |-> hc, ac |-> ac, substitutions |-> 0]

(***************************************************************************)
(* fifa_get, the memoizing decorator and the three queries (data.py)       *)
(***************************************************************************)
\* A response of the remote API: how the request ended and, when it ended
\* well, the JSON document (an object with its arrays, or some other value).
FailureOf(resp) ==
    IF resp.status # "ok" THEN resp.status
    ELSE IF ~resp.json.isDict THEN "not_a_dict"
    ELSE "none"

\* fifa_get: raises on a transport failure (session.get), on a non-2xx status
\* (raise_for_status) and on a body that is not JSON (r.json)
FifaGet(resp) == [raised |-> resp.status # "ok", data |-> resp.json]

\* dict.get(k, default) on a JSON object, a record that holds the keys present
Get(o, k, default) == IF k \in DOMAIN o THEN o[k] ELSE default

\* the JSON object without a key: {}
EmptyObject == <<>>

\* _desc: the Description of the first descriptor; the default without a
\* descriptor, without the key and with an empty Description
Desc(lst, default) ==
    IF lst = <<>> THEN default
    ELSE IF Get(lst[1], "Description", default) = default THEN default
    ELSE lst[1].Description

\* Python's `a or b` on two values that are each a string or None
StrOr(a, b) == IF a # <<>> /\ a # None THEN a ELSE b

\* a missing value of a frame (NaN / None)
NaN == <<"NaN">>

\* pd.DataFrame(): no column, no row
EmptyFrame == [columns |-> {}, rows |-> <<>>]

\* DataFrame.empty
FrameEmpty(df) == df.rows = <<>> \/ df.columns = {}

MatchColumns ==
    {"MatchId", "StageName", "GroupName", "HomeId", "HomeName", "AwayId", "AwayName",
     "KickoffDate", "MatchName"}

VsSeparator == <<" ", "v", "s", " ">>

\* One row of get_matches, with its MatchName. A key that is absent, a null
\* Home or Away and a null descriptor list all take the default of their get;
\* the + of the name column leaves a missing value where a name is None.
MatchRow(m) ==
    LET home == Get(m, "Home", EmptyObject)
        away == Get(m, "Away", EmptyObject)
        homeName == StrOr(Get(home, "ShortClubName", <<>>), Get(home, "TeamName", <<>>))
        awayName == StrOr(Get(away, "ShortClubName", <<>>), Get(away, "TeamName", <<>>))
    IN  [MatchId |-> Get(m, "IdMatch", ""),
         StageName |-> Desc(Get(m, "StageName", <<>>), <<>>),
         GroupName |-> Desc(Get(m, "GroupName", <<>>), <<>>),
         HomeId |-> Get(home, "IdTeam", ""), HomeName |-> homeName,
         AwayId |-> Get(away, "IdTeam", ""), AwayName |-> awayName,
         KickoffDate |-> StrOr(Get(m, "LocalDate", <<>>), Get(m, "Date", <<>>)),
         MatchName |-> IF homeName = None \/ awayName = None THEN NaN
                       ELSE homeName \o VsSeparator \o awayName]

RECURSIVE MatchRows(_)
MatchRows(results) ==
    IF results = <<>> THEN <<>> ELSE <<MatchRow(Head(results))>> \o MatchRows(Tail(results))

\* get_matches reading its records with m["Home"] and m["Away"]: a record
\* without one of them raises KeyError, and the except gives pd.DataFrame()
GetMatches_HomeRequired(resp) ==
    LET r == FifaGet(resp) IN
    IF r.raised \/ ~r.data.isDict THEN [raised |-> FALSE, value |-> EmptyFrame]
    ELSE IF r.data.Results = <<>> THEN [raised |-> FALSE, value |-> EmptyFrame]
    ELSE IF \E i \in 1..Len(r.data.Results) :
                {"Home", "Away"} \ DOMAIN r.data.Results[i] # {}
    THEN [raised |-> FALSE, value |-> EmptyFrame]
    ELSE [raised |-> FALSE,
          value |-> [columns |-> MatchColumns, rows |-> MatchRows(r.data.Results)]]

\* the body of get_matches: any exception of the fetch or of the processing of
\* its result gives pd.DataFrame(); a frame built from no record has no column
GetMatches(resp) ==
    LET r == FifaGet(resp) IN
    IF r.raised \/ ~r.data.isDict THEN [raised |-> FALSE, value |-> EmptyFrame]
    ELSE IF r.data.Results = <<>> THEN [raised |-> FALSE, value |-> EmptyFrame]
    ELSE [raised |-> FALSE,
          value |-> [columns |-> MatchColumns, rows |-> MatchRows(r.data.Results)]]

EventColumns == {"TeamId", "PlayerId", "Description", "MatchMinute"}

RECURSIVE EventRows(_)
EventRows(ev) ==
    IF ev = <<>> THEN <<>>
    ELSE <<[TeamId |-> Head(ev).IdTeam, PlayerId |-> Head(ev).IdPlayer,
            Description |-> Desc(Head(ev).TypeLocalized, ""),
            MatchMinute |-> Head(ev).MatchMinute]>> \o EventRows(Tail(ev))

\* get_match_events without its try/except
GetMatchEvents_NoTry(resp) ==
    LET r == FifaGet(resp) IN
    IF r.raised \/ ~r.data.isDict THEN [raised |-> TRUE, value |-> EmptyFrame]
    ELSE [raised |-> FALSE,
          value |-> [columns |-> EventColumns, rows |-> EventRows(r.data.Event)]]

\* the body of get_match_events: the four columns even without an event, and
\* pd.DataFrame() after any exception
GetMatchEvents(resp) ==
    LET r == FifaGet(resp) IN
    IF r.raised \/ ~r.data.isDict THEN [raised |-> FALSE, value |-> EmptyFrame]
    ELSE [raised |-> FALSE,
          value |-> [columns |-> EventColumns, rows |-> EventRows(r.data.Event)]]

PlayerColumns == {"TeamId", "PlayerId", "PlayerName"}

RECURSIVE PlayerRows(_)
PlayerRows(players) ==
    IF players = <<>> THEN <<>>
    ELSE <<[TeamId |-> Head(players).IdTeam, PlayerId |-> Head(players).IdPlayer,
            PlayerName |-> Desc(Head(players).ShortName, <<>>)]>>
         \o PlayerRows(Tail(players))

\* the rows get_players_for_teams collects: a team whose fetch fails is skipped
RECURSIVE SquadRows(_)
SquadRows(resps) ==
    IF resps = <<>> THEN <<>>
    ELSE LET r == FifaGet(Head(resps)) IN
         (IF r.raised \/ ~r.data.isDict THEN <<>> ELSE PlayerRows(r.data.Players))
             \o SquadRows(Tail(resps))

\* get_players_for_teams with one try around the whole loop: a team whose fetch
\* fails loses the players of every team
GetPlayersForTeams_AllOrNothing(resps) ==
    LET rows == SquadRows(resps) IN
    [raised |-> FALSE,
     value |-> IF rows = <<>> \/ \E i \in 1..Len(resps) : FailureOf(resps[i]) # "none"
               THEN EmptyFrame ELSE [columns |-> PlayerColumns, rows |-> rows]]

\* the body of get_players_for_teams, given one response per team id
GetPlayersForTeams(resps) ==
    LET rows == SquadRows(resps) IN
    [raised |-> FALSE,
     value |-> IF rows = <<>> THEN EmptyFrame ELSE [columns |-> PlayerColumns, rows |-> rows]]

Timeout_get_matches == 3600
Timeout_get_match_events == 1800
Timeout_get_players_for_teams == 86400

TimeoutOf(fn) ==
    IF fn = "get_matches" THEN Timeout_get_matches
    ELSE IF fn = "get_match_events" THEN Timeout_get_match_events
    ELSE Timeout_get_players_for_teams

\* What current_app.extensions.get("cache") is in the running app: Cache(server,
\* ...) of app.py registers extensions["cache"] = {the Cache object: its
\* backend}, a non-empty dict, which has the attributes of a dict and neither
\* `cache` nor `memoize`.
CacheExtension ==
    [truthy |-> TRUE, attrs |-> {"get", "items", "keys", "values"}]

\* the entries of the backend for one query and its arguments that have not expired
LiveEntries(store, fn, args, t) ==
    {e \in store : e.fn = fn /\ e.args = args /\ e.expires > t}

\* memoize(timeout)(fn)(*args): the stored value while an entry lives; otherwise
\* the function body runs and what it returns is stored until t + timeout
Memoize(fn, args, timeout, res, store, t) ==
    IF LiveEntries(store, fn, args, t) # {}
    THEN [value |-> (CHOOSE e \in LiveEntries(store, fn, args, t) : TRUE).value,
          raised |-> FALSE, fetched |-> FALSE, store |-> store]
    ELSE IF res.raised
    THEN [value |-> res.value, raised |-> TRUE, fetched |-> TRUE, store |-> store]
    ELSE [value |-> res.value, raised |-> FALSE, fetched |-> TRUE,
          store |-> {e \in store : ~(e.fn = fn /\ e.args = args)}
                      \cup {[fn |-> fn, args |-> args, value |-> res.value,
                             expires |-> t + timeout]}]

\* cache_memoize keeping one entry per function, whatever the arguments
Inner_SharedKey(fn, args, timeout, res, store, t) ==
    Memoize(fn, <<>>, timeout, res, store, t)

\* cache_memoize(timeout)(fn)(*args), where res is what the body of fn gives
\* when it runs
Inner(fn, args, timeout, res, store, t) ==
    IF CacheExtension.truthy /\ "cache" \in CacheExtension.attrs
    THEN Memoize(fn, args, timeout, res, store, t)
    ELSE IF CacheExtension.truthy /\ "memoize" \in CacheExtension.attrs
    THEN Memoize(fn, args, timeout, res, store, t)
    ELSE [value |-> res.value, raised |-> res.raised, fetched |-> TRUE, store |-> store]

(***************************************************************************)
(* layout and _load_match (pages/performance.py)                           *)
(***************************************************************************)

NoDate == -1

\* The date of a kickoff string, or NoDate when it does not parse. The model
\* writes a kickoff date as its two-digit day.
DateOnly(s) ==
    IF Len(s) = 2 /\ IsDigit(s[1]) /\ IsDigit(s[2])
    THEN 10 * (Ord(s[1]) - 48) + (Ord(s[2]) - 48)
    ELSE NoDate

RECURSIVE AddDateOnly(_)
AddDateOnly(rows) ==
    IF rows = <<>> THEN <<>>
    ELSE LET r == Head(rows) IN
         <<[MatchId |-> r.MatchId, StageName |-> r.StageName, GroupName |-> r.GroupName,
            HomeId |-> r.HomeId, HomeName |-> r.HomeName,
            AwayId |-> r.AwayId, AwayName |-> r.AwayName,
            KickoffDate |-> r.KickoffDate, MatchName |-> r.MatchName,
            KickoffDateOnly |-> DateOnly(r.KickoffDate)]>> \o AddDateOnly(Tail(rows))

\* _with_date_only: reads column LocalDate or else KickoffDate, a KeyError when
\* the frame has neither
WithDateOnly(df) ==
    IF "LocalDate" \notin df.columns /\ "KickoffDate" \notin df.columns
    THEN [raised |-> TRUE, value |-> df]
    ELSE [raised |-> FALSE,
          value |-> [columns |-> df.columns \cup {"KickoffDateOnly"},
                     rows |-> AddDateOnly(df.rows)]]

\* the frame sort_matches returns for a frame of get_matches
SortFrame(df) ==
    IF FrameEmpty(df) THEN df ELSE [columns |-> df.columns, rows |-> SortMatches(df.rows)]

\* date.isoformat() of a date-only value, written as its two-digit day
IsoFormat(d) == <<DigitChars[(d \div 10) + 1], DigitChars[(d % 10) + 1]>>

\* df.to_dict("records") as dcc.Store serialises it: a date becomes its ISO
\* string and a missing date (NaT) becomes null
RECURSIVE ToJsonRecords(_)
ToJsonRecords(rows) ==
    IF rows = <<>> THEN <<>>
    ELSE <<[Head(rows) EXCEPT !.KickoffDateOnly =
                IF @ = NoDate THEN None ELSE IsoFormat(@)]>> \o ToJsonRecords(Tail(rows))

\* pd.to_datetime(base, utc=True, errors="coerce").dt.date of one stored value
KDO(r) == DateOnly(r.KickoffDateOnly)

\* pd.to_datetime(start_date, errors="coerce").date() if start_date else None
BoundOf(d) == IF d = None \/ d = <<>> THEN NoDate ELSE DateOnly(d)

\* df["KDO"] >= s_date, applied only under `if s_date`: a missing KDO compares False
AfterStart(kdo, s_date) == s_date = NoDate \/ (kdo # NoDate /\ kdo >= s_date)

\* df["KDO"] <= e_date with a missing KDO taken as a date before every date
BeforeEnd_NullPasses(kdo, e_date) == e_date = NoDate \/ kdo <= e_date

\* df["KDO"] <= e_date, applied only under `if e_date`: a missing KDO compares False
BeforeEnd(kdo, e_date) == e_date = NoDate \/ (kdo # NoDate /\ kdo <= e_date)

\* the team filter on the home side only
TeamPlays_HomeOnly(r, team) == team = None \/ team = <<>> \/ r.HomeName = team

\* (df["HomeName"] == team) | (df["AwayName"] == team), applied only under `if team`
TeamPlays(r, team) ==
    team = None \/ team = <<>> \/ r.HomeName = team \/ r.AwayName = team

\* the character U+00B7 of the option labels
MiddleDot == "MIDDLE DOT"

NaTText == <<"N","a","T">>

\* {"label": f'{r["KDO"]} . {r["MatchName"]}', "value": r["MatchId"]}
OptionOf(r) ==
    [label |-> (IF KDO(r) = NoDate THEN NaTText ELSE IsoFormat(KDO(r)))
                   \o <<" ", MiddleDot, " ">> \o r.MatchName,
     value |-> r.MatchId]

RECURSIVE OptionsOf(_)
OptionsOf(rows) ==
    IF rows = <<>> THEN <<>> ELSE <<OptionOf(Head(rows))>> \o OptionsOf(Tail(rows))

\* _update_match_options returning the options last match first
UpdateMatchOptions_Reversed(data, start_date, end_date, team) ==
    IF data = <<>> THEN <<>>
    ELSE LET opts == OptionsOf(SelectSeq(data, LAMBDA r :
                         /\ AfterStart(KDO(r), BoundOf(start_date))
                         /\ BeforeEnd(KDO(r), BoundOf(end_date))
                         /\ TeamPlays(r, team)))
         IN  [i \in 1..Len(opts) |-> opts[Len(opts) + 1 - i]]

\* _update_match_options: the rows of the store that pass the date bounds and
\* the team filter, in the order of the store
UpdateMatchOptions(data, start_date, end_date, team) ==
    IF data = <<>> THEN <<>>
    ELSE OptionsOf(SelectSeq(data, LAMBDA r :
             /\ AfterStart(KDO(r), BoundOf(start_date))
             /\ BeforeEnd(KDO(r), BoundOf(end_date))
             /\ TeamPlays(r, team)))

\* {opt["value"] for opt in options if "value" in opt}
OptionValues(opts) == {opts[i].value : i \in 1..Len(opts)}

NoUpdate == "no_update"

\* _remember_match that keeps the stored id when the dropdown is cleared
Remember_KeepsOnClear(match_id) == IF match_id = "" THEN NoUpdate ELSE match_id

\* _remember_match: what it returns for pf-selected-match
Remember(match_id) == match_id

\* _restore_match_value that never re-selects
RestoreMatchValue_NeverRestores(opts, stored_match_id) == NoUpdate

\* _restore_match_value that clears a selection absent from the options
RestoreMatchValue_ClearsStale(opts, stored_match_id) ==
    IF opts = <<>> THEN NoUpdate
    ELSE IF stored_match_id = "" THEN NoUpdate
    ELSE IF stored_match_id \in OptionValues(opts) THEN stored_match_id
    ELSE ""

\* _restore_match_value; "" stands for a stored id that is None or empty
RestoreMatchValue(opts, stored_match_id) ==
    IF opts = <<>> THEN NoUpdate
    ELSE IF stored_match_id = "" THEN NoUpdate
    ELSE IF stored_match_id \in OptionValues(opts) THEN stored_match_id
    ELSE NoUpdate

\* name_map of _load_match: the later key wins when both ids are equal
TeamNameOf(tid, row) ==
    IF tid = row.AwayId THEN row.AwayName
    ELSE IF tid = row.HomeId THEN row.HomeName
    ELSE NaN

\* df.merge(squads[["PlayerId", "PlayerName"]], on="PlayerId", how="left"): one
\* row per squad row of the same PlayerId, one row with a missing name without
RECURSIVE MergePlayerNames(_, _)
MergePlayerNames(rows, squadRows) ==
    IF rows = <<>> THEN <<>>
    ELSE LET e == Head(rows)
             hits == SelectSeq(squadRows, LAMBDA p : p.PlayerId = e.PlayerId)
             named(n) == [TeamName |-> e.TeamName, PlayerId |-> e.PlayerId,
                          Description |-> e.Description, MatchMinute |-> e.MatchMinute,
                          PlayerName |-> n]
         IN  (IF hits = <<>> THEN <<named(NaN)>>
              ELSE [i \in 1..Len(hits) |-> named(hits[i].PlayerName)])
                 \o MergePlayerNames(Tail(rows), squadRows)

AttackingEvents == {"Attempt at Goal", "Goal!"}

\* the integer of the first run of digits of s from position i on
RECURSIVE DigitRun(_, _, _)
DigitRun(s, i, acc) ==
    IF i <= Len(s) /\ IsDigit(s[i]) THEN DigitRun(s, i + 1, 10 * acc + (Ord(s[i]) - 48))
    ELSE acc

\* the minute read from all the digits of s, whatever stands between them
RECURSIVE Minute_AllDigits(_)
Minute_AllDigits(s) ==
    IF s = <<>> THEN 0
    ELSE LET front == SubSeq(s, 1, Len(s) - 1) IN
         IF IsDigit(s[Len(s)]) THEN 10 * Minute_AllDigits(front) + (Ord(s[Len(s)]) - 48)
         ELSE Minute_AllDigits(front)

\* .str.extract(r"(\d+)").fillna("0").astype(int)
Minute(s) ==
    IF \E i \in 1..Len(s) : IsDigit(s[i])
    THEN DigitRun(s, CHOOSE i \in 1..Len(s) :
                        IsDigit(s[i]) /\ \A j \in 1..(i - 1) : ~IsDigit(s[j]), 0)
    ELSE 0

RECURSIVE Minutes(_)
Minutes(rows) ==
    IF rows = <<>> THEN <<>> ELSE <<Minute(Head(rows).MatchMinute)>> \o Minutes(Tail(rows))

FillNa(v) == IF v = NaN THEN <<>> ELSE v

\* df[["TeamName", "Description", "MatchMinute", "PlayerName"]].fillna("")
RECURSIVE TableRecords(_)
TableRecords(rows) ==
    IF rows = <<>> THEN <<>>
    ELSE <<[TeamName |-> FillNa(Head(rows).TeamName), Description |-> Head(rows).Description,
            MatchMinute |-> Head(rows).MatchMinute,
            PlayerName |-> FillNa(Head(rows).PlayerName)]>> \o TableRecords(Tail(rows))

RECURSIVE WithTeamNames(_, _)
WithTeamNames(rows, row) ==
    IF rows = <<>> THEN <<>>
    ELSE LET e == Head(rows) IN
         <<[TeamName |-> TeamNameOf(e.TeamId, row), PlayerId |-> e.PlayerId,
            Description |-> e.Description, MatchMinute |-> e.MatchMinute]>>
         \o WithTeamNames(Tail(rows), row)

Returned(table, minutes) ==
    [kind |-> "returned", error |-> "", table |-> table, minutes |-> minutes]

Raised(error) == [kind |-> "raised", error |-> error, table |-> <<>>, minutes |-> <<>>]

\* _load_match after the two queries: events and squads are what they returned
Enrich(row, events, squads) ==
    IF "TeamId" \notin events.columns THEN Raised("KeyError: 'TeamId'")
    ELSE
    LET named   == WithTeamNames(events.rows, row)
        merged  == IF FrameEmpty(squads) THEN named
                   ELSE MergePlayerNames(named, squads.rows)
        attack  == SelectSeq(merged, LAMBDA e : e.Description \in AttackingEvents)
    IN  IF FrameEmpty(squads) THEN Raised("KeyError: 'PlayerName'")
        ELSE Returned(TableRecords(attack), Minutes(attack))

(***************************************************************************)
(* authenticate, do_login (auth.py) and do_signin (pages/login.py)         *)
(***************************************************************************)
\* the value both credentials take when the environment does not set them
DefaultCredential == <<"a","d","m","i","n">>

\* what the environment can make of the two credentials: unset (the default),
\* set to the empty string, set to another string
AdminUserEnv == {DefaultCredential, <<>>, <<" ">> \o DefaultCredential}
AdminPassEnv == {DefaultCredential, <<>>, <<"x">>}

DefaultCredentials == ADMIN_USER = DefaultCredential /\ ADMIN_PASS = DefaultCredential

Authenticate(username, password) == username = ADMIN_USER /\ password = ADMIN_PASS

\* do_signin that hands the user name to do_login as it was typed
DoSignin_NoStrip(user, pwd) ==
    IF user = <<>> \/ pwd = <<>>
    THEN [alert |-> "Please enter username and password.", is_open |-> TRUE,
          href |-> "no_update", logged_in |-> FALSE]
    ELSE IF Authenticate(user, pwd)
    THEN [alert |-> "no_update", is_open |-> FALSE, href |-> "/", logged_in |-> TRUE]
    ELSE [alert |-> "Invalid credentials.", is_open |-> TRUE,
          href |-> "no_update", logged_in |-> FALSE]

\* do_signin: the alert, whether it shows, the redirect, and whether do_login
\* created a session
DoSignin(user, pwd) ==
    IF user = <<>> \/ pwd = <<>>
    THEN [alert |-> "Please enter username and password.", is_open |-> TRUE,
          href |-> "no_update", logged_in |-> FALSE]
    ELSE IF Authenticate(StrStrip(user), pwd)
    THEN [alert |-> "no_update", is_open |-> FALSE, href |-> "/", logged_in |-> TRUE]
    ELSE [alert |-> "Invalid credentials.", is_open |-> TRUE,
          href |-> "no_update", logged_in |-> FALSE]

(***************************************************************************)
(* sort_matches applied to bounded catalogs                                *)
(***************************************************************************)
MaxMatches == 3

MatchIds == <<"m1", "m2", "m3", "m4">>

GN_GroupB == <<"G","r","o","u","p"," ","B">>
GN_groupA == <<"g","r","o","u","p"," "," ","a">>
GN_None   == <<>>

SN_GroupStage == <<"G","r","o","u","p"," ","S","t","a","g","e">>
SN_SemiFinal  == <<"S","e","m","i","-","f","i","n","a","l">>
SN_Final      == <<"F","i","n","a","l">>

Date01 == <<"0","1">>
Date02 == <<"0","2">>

Name_AB == <<"A"," ","v","s"," ","B">>
Name_CD == <<"C"," ","v","s"," ","D">>

\* (StageName, GroupName) of pool matches, of knockout matches, which carry no
\* group, and of one knockout match that does carry a group name
StageGroupPool ==
    { <<SN_GroupStage, GN_GroupB>>, <<SN_GroupStage, GN_groupA>>,
      <<SN_SemiFinal, GN_None>>, <<SN_Final, GN_None>>, <<SN_Final, GN_groupA>> }

DateNamePool == { <<Date01, Name_AB>>, <<Date01, Name_CD>>, <<Date02, Name_AB>> }

SortRowPool ==
    { [StageName |-> sg[1], GroupName |-> sg[2], KickoffDate |-> dn[1], MatchName |-> dn[2]]
        : sg \in StageGroupPool, dn \in DateNamePool }

WithId(r, i) ==
    [MatchId |-> MatchIds[i], StageName |-> r.StageName, GroupName |-> r.GroupName,
     KickoffDate |-> r.KickoffDate, MatchName |-> r.MatchName]

StageIdle == st_in = <<>> /\ st_out = 0 /\ st_done = FALSE

SortIdle == sm_in = <<>> /\ sm_out = <<>> /\ sm_done = FALSE /\ StageIdle

ColorsIdle ==
    /\ pc_home = <<>> /\ pc_away = <<>>
    /\ pc_store = [isNone |-> TRUE, rows |-> <<>>]
    /\ pc_out = [hc |-> <<>>, ac |-> <<>>, substitutions |-> 0]
    /\ pc_done = FALSE

LoadMatchIdle ==
    [match_id |-> "", inCatalog |-> FALSE, events |-> <<>>, kind |-> "idle", error |-> "",
     table |-> <<>>, minutes |-> <<>>]

\* no filter applied yet: the page's components as the layout creates them
FiltersOff == [fresh |-> FALSE, start_date |-> None, end_date |-> None, team |-> None]

NotRestored == [fresh |-> FALSE, ret |-> ""]

FiltersIdle ==
    /\ options = <<>>
    /\ umo_in = FiltersOff
    /\ selected = ""
    /\ rmv_out = NotRestored
    /\ pf_match = ""
    /\ pending = {}

GetMatchesIdle == gm_in = <<>> /\ gm_out = <<>> /\ gm_done = FALSE

GetPlayersIdle == gp_in = <<>> /\ gp_out = <<>> /\ gp_done = FALSE

RequestsIdle == requests = <<>>

\* no function body applied, no request being served
QueriesIdle == GetMatchesIdle /\ GetPlayersIdle /\ RequestsIdle

\* the login page before any click
NotSubmitted ==
    [user |-> <<>>, pwd |-> <<>>, alert |-> "", is_open |-> FALSE, href |-> "",
     logged_in |-> FALSE]

\* the click of the sign-in button with these two field values, and what
\* do_signin returned for it
Submitted(user, pwd) == [user |-> user, pwd |-> pwd] @@ DoSignin(user, pwd)

\* the server before any request
ServerIdle ==
    /\ DefaultCredentials
    /\ FiltersIdle
    /\ now = 0
    /\ cacheStore = {}
    /\ lastFetch = {}
    /\ calls = <<>>
    /\ authenticated = FALSE
    /\ login_out = NotSubmitted
    /\ matchesStore = <<>>
    /\ lay_out = [kind |-> "idle", error |-> "", ids |-> {}]
    /\ lm_out = LoadMatchIdle
    /\ nTicks = 0
    /\ nRequests = 0

AppIdle == ServerIdle /\ QueriesIdle

InitSort ==
    /\ ColorsIdle
    /\ AppIdle
    /\ \E n \in 0..MaxMatches : \E f \in [1..n -> SortRowPool] :
          sm_in = [i \in 1..n |-> WithId(f[i], i)]
    /\ sm_out = <<>>
    /\ sm_done = FALSE
    /\ StageIdle

SortMatchesCall ==
    /\ ~sm_done
    /\ sm_out' = SortMatches(sm_in)
    /\ sm_done' = TRUE
    /\ UNCHANGED <<sm_in, st_in, st_out, st_done, colorVars, queryVars, appVars, filterVars>>

NextSort == SortMatchesCall

SpecSort == InitSort /\ [][NextSort]_vars

(***************************************************************************)
(* sort_matches._stage applied to bounded stage names                      *)
(***************************************************************************)
MaxFragments == 2

Frag_Semi         == <<"S","e","m","i">>
Frag_dash_final   == <<"-","f","i","n","a","l">>
Frag_Quarter      == <<"Q","u","a","r","t","e","r">>
Frag_Third_place  == <<"T","h","i","r","d"," ","p","l","a","c","e"," ">>
Frag_Final        == <<"F","i","n","a","l">>
Frag_FINAL        == <<"F","I","N","A","L"," ">>
Frag_Group        == <<"G","r","o","u","p"," ">>
Frag_3rd          == <<"3","r","d"," ">>
Frag_Round_of_16  == <<"R","o","u","n","d"," ","o","f"," ","1","6"," ">>
Frag_roundof16    == <<"r","o","u","n","d","o","f","1","6">>
Frag_sixteen      == <<"L","a","s","t"," ","s","i","x","t","e","e","n"," ">>
Frag_Play         == <<"P","l","a","y","-","o","f","f"," ">>

\* the pieces stage names are made of
FragmentPool ==
    { Frag_Semi, Frag_dash_final, Frag_Quarter, Frag_Third_place,
      Frag_Final, Frag_FINAL, Frag_Group, Frag_3rd,
      Frag_Round_of_16, Frag_roundof16, Frag_sixteen, Frag_Play }

SN_QuarterFinal    == Frag_Quarter \o Frag_dash_final
SN_ThirdPlaceFinal == Frag_Third_place \o Frag_Final

RECURSIVE Concat(_)
Concat(parts) == IF parts = <<>> THEN <<>> ELSE Head(parts) \o Concat(Tail(parts))

\* a StageName is a string of up to MaxFragments pieces, or None
InitStage ==
    /\ ColorsIdle
    /\ AppIdle
    /\ sm_in = <<>> /\ sm_out = <<>> /\ sm_done = FALSE
    /\ \/ st_in = None
       \/ \E n \in 0..MaxFragments : \E f \in [1..n -> FragmentPool] : st_in = Concat(f)
    /\ st_out = 0
    /\ st_done = FALSE

StageCall ==
    /\ ~st_done
    /\ st_out' = Stage(st_in)
    /\ st_done' = TRUE
    /\ UNCHANGED <<st_in, sm_in, sm_out, sm_done, colorVars, queryVars, appVars, filterVars>>

NextStage == StageCall

SpecStage == InitStage /\ [][NextStage]_vars

(***************************************************************************)
(* pick_colors applied to bounded stores                                   *)
(***************************************************************************)
MaxStoreRows == 2

Color_2077B5 == <<"#","2","0","7","7","B","5">>
Color_d62728 == <<"#","d","6","2","7","2","8">>

Team_Ab      == <<"A","b">>
Team_ab_sp   == <<"a","b"," ">>
Team_Cd      == <<"C","d">>
Team_sp_cd   == <<" ","c","d">>
Team_Zz      == <<"Z","z">>

\* the rows of the team_colors table
ColorRowPool ==
    [name : {Team_Ab, Team_sp_cd},
     home_color : {Color_1f77b4, Color_2077B5, Color_d62728},
     away_color : {Color_1f77b4, Color_2077B5, Color_d62728}]

TeamNamePool == {Team_Ab, Team_ab_sp, Team_Cd, Team_Zz}

InitColors ==
    /\ SortIdle
    /\ AppIdle
    /\ pc_home \in TeamNamePool
    /\ pc_away \in TeamNamePool
    /\ \/ pc_store = [isNone |-> TRUE, rows |-> <<>>]
       \/ \E n \in 0..MaxStoreRows : \E f \in [1..n -> ColorRowPool] :
             pc_store = [isNone |-> FALSE, rows |-> LoadTeamColors(f)]
    /\ pc_out = [hc |-> <<>>, ac |-> <<>>, substitutions |-> 0]
    /\ pc_done = FALSE

PickColorsCall ==
    /\ ~pc_done
    /\ pc_out' = PickColors(pc_home, pc_away, pc_store)
    /\ pc_done' = TRUE
    /\ UNCHANGED <<pc_home, pc_away, pc_store, sortVars, appVars, filterVars, queryVars>>

NextColors == PickColorsCall

SpecColors == InitColors /\ [][NextColors]_vars

\* the team is in the store: some row carries its upper-cased, stripped name
InStore(name, df_colors) ==
    /\ ~df_colors.isNone
    /\ \E i \in 1..Len(df_colors.rows) : df_colors.rows[i].key_name = StrStrip(StrUpper(name))

\* the first row of the store for the team
FirstRowOf(name, df_colors) ==
    df_colors.rows[CHOOSE i \in 1..Len(df_colors.rows) :
        /\ df_colors.rows[i].key_name = StrStrip(StrUpper(name))
        /\ \A j \in 1..(i - 1) : df_colors.rows[j].key_name # StrStrip(StrUpper(name))]

\* C4 as stated: the two colours returned are always at RGB-sum distance >= 90.
C4_AlwaysDistinguishable ==
    pc_done => RgbDistance(pc_out.hc, pc_out.ac) >= 90

\* C5: for a team X of the store, pick_colors(X, X, store) returns X's primary and
\* then X's secondary colour, two different colours when the secondary differs
\* from the primary.
C5_SameTeamGetsSecondary ==
    (pc_done /\ pc_home = pc_away /\ InStore(pc_home, pc_store)) =>
        LET row == FirstRowOf(pc_home, pc_store) IN
        /\ pc_out.hc = row.home_color
        /\ pc_out.ac = row.away_color
        /\ row.away_color # row.home_color => pc_out.hc # pc_out.ac

\* C5 witness: a stored team against itself whose secondary differs from its primary
C5_Witness ==
    /\ pc_done /\ pc_home = pc_away /\ InStore(pc_home, pc_store)
    /\ FirstRowOf(pc_home, pc_store).away_color # FirstRowOf(pc_home, pc_store).home_color
    /\ pc_out.ac = FirstRowOf(pc_home, pc_store).away_color

\* C6: with both teams absent from the store (or the store empty or None) the
\* result is (#1f77b4, #2ca02c) after exactly one substitution, two different
\* colours at RGB-sum distance >= 90.
C6_BothAbsentDefaults ==
    (pc_done /\ ~InStore(pc_home, pc_store) /\ ~InStore(pc_away, pc_store)) =>
        /\ pc_out.hc = Color_1f77b4
        /\ pc_out.ac = Color_2ca02c
        /\ pc_out.substitutions = 1
        /\ pc_out.hc # pc_out.ac
        /\ RgbDistance(pc_out.hc, pc_out.ac) >= 90

\* C6 witness: two different absent teams over a store that holds other teams
C6_Witness ==
    /\ pc_done /\ pc_home # pc_away
    /\ ~pc_store.isNone /\ pc_store.rows # <<>>
    /\ ~InStore(pc_home, pc_store) /\ ~InStore(pc_away, pc_store)
    /\ pc_out.ac = Color_2ca02c

\* C7 as stated: an away team absent from the store has the default primary
\* #2ca02c, so against a home colour that is not similar to it the away colour
\* returned is #2ca02c.
C7_Original_AwayDefaultByRole ==
    ( /\ pc_done /\ ~InStore(pc_away, pc_store)
      /\ RgbDistance(pc_out.hc, Color_2ca02c) >= 90 ) => pc_out.ac = Color_2ca02c

\* C7 amended: an absent team has the default primary #1f77b4 and the default
\* secondary #2ca02c in either role: an absent home team is drawn in #1f77b4, and
\* an absent away team is drawn in #1f77b4 when the home colour is at distance
\* >= 90 from #1f77b4 and in #2ca02c when it is nearer than 90.
C7_AbsentDefaultsIgnoreRole ==
    pc_done =>
        /\ ~InStore(pc_home, pc_store) => pc_out.hc = Color_1f77b4
        /\ ~InStore(pc_away, pc_store) =>
              pc_out.ac = IF RgbDistance(pc_out.hc, Color_1f77b4) >= 90
                          THEN Color_1f77b4 ELSE Color_2ca02c

\* C7 witness: an absent away team against a stored home team of a distant colour
C7_Witness ==
    /\ pc_done /\ InStore(pc_home, pc_store) /\ ~InStore(pc_away, pc_store)
    /\ RgbDistance(pc_out.hc, Color_1f77b4) >= 90
    /\ RgbDistance(pc_out.hc, Color_2ca02c) >= 90
    /\ pc_out.ac = Color_1f77b4

(***************************************************************************)
(* The running app: sign-in, the performance page and its detail handler   *)
(***************************************************************************)
MaxTicks == 2
MaxCalls == 2
MaxRequests == 3

COMPETITIONID == "106"
SEASONID == "288439"
STAGEID == "288440"

GN_GroupA == <<"G","r","o","u","p"," ","A">>

NoJson == [isDict |-> FALSE, Results |-> <<>>, Event |-> <<>>, Players |-> <<>>]

Failed(status) == [status |-> status, json |-> NoJson]

FailedResponses ==
    {Failed("transport_error"), Failed("http_error"), Failed("invalid_json"),
     [status |-> "ok", json |-> NoJson]}

RawMatch1 ==
    [IdMatch |-> "m1",
     StageName |-> <<[Description |-> SN_GroupStage]>>,
     GroupName |-> <<[Description |-> GN_GroupA]>>,
     Home |-> [IdTeam |-> "t1", ShortClubName |-> <<>>, TeamName |-> Team_Ab],
     Away |-> [IdTeam |-> "t2", ShortClubName |-> Team_Cd, TeamName |-> <<>>],
     LocalDate |-> Date02, Date |-> <<>>]

RawMatch2 ==
    [IdMatch |-> "m2",
     StageName |-> <<[Description |-> SN_Final]>>,
     GroupName |-> <<>>,
     Home |-> [IdTeam |-> "t2", ShortClubName |-> Team_Cd, TeamName |-> Team_Cd],
     Away |-> [IdTeam |-> "t1", ShortClubName |-> Team_Ab, TeamName |-> <<>>],
     LocalDate |-> <<>>, Date |-> Date01]

Date_TBD == <<"T","B","D">>

RawMatch3 ==
    [IdMatch |-> "m3",
     StageName |-> <<[Description |-> SN_GroupStage]>>,
     GroupName |-> <<[Description |-> GN_GroupB]>>,
     Home |-> [IdTeam |-> "t3", ShortClubName |-> Team_Zz, TeamName |-> Team_Zz],
     Away |-> [IdTeam |-> "t1", ShortClubName |-> Team_Ab, TeamName |-> Team_Ab],
     LocalDate |-> Date_TBD, Date |-> <<>>]

MatchesJson(results) ==
    [status |-> "ok",
     json |-> [isDict |-> TRUE, Results |-> results, Event |-> <<>>, Players |-> <<>>]]

MatchResponses ==
    FailedResponses \cup
    {MatchesJson(<<>>), MatchesJson(<<RawMatch1>>), MatchesJson(<<RawMatch2, RawMatch1>>),
     MatchesJson(<<RawMatch3, RawMatch2>>), MatchesJson(<<RawMatch3, RawMatch2, RawMatch1>>)}

Minute_12   == <<"1","2">>
Minute_45_2 == <<"4","5","+","2">>
Minute_HT   == <<"H","T">>

RawEventPool ==
    { [IdTeam |-> "t1", IdPlayer |-> "p1",
       TypeLocalized |-> <<[Description |-> "Goal!"]>>, MatchMinute |-> Minute_12],
      [IdTeam |-> "t2", IdPlayer |-> "p9",
       TypeLocalized |-> <<[Description |-> "Attempt at Goal"]>>, MatchMinute |-> Minute_45_2],
      [IdTeam |-> "t1", IdPlayer |-> "p1",
       TypeLocalized |-> <<[Description |-> "Foul"]>>, MatchMinute |-> Minute_HT],
      [IdTeam |-> "t2", IdPlayer |-> "p2",
       TypeLocalized |-> <<[Description |-> "Goal!"]>>, MatchMinute |-> Minute_HT] }

EventsJson(ev) ==
    [status |-> "ok",
     json |-> [isDict |-> TRUE, Results |-> <<>>, Event |-> ev, Players |-> <<>>]]

\* timelines of no event, of one event and of every two events of the pool
EventResponses ==
    FailedResponses \cup {EventsJson(<<>>)}
        \cup { EventsJson(<<e>>) : e \in RawEventPool }
        \cup { EventsJson(<<e1, e2>>) : e1 \in RawEventPool, e2 \in RawEventPool }

Player_p1 == [IdTeam |-> "t1", IdPlayer |-> "p1", ShortName |-> <<[Description |-> <<"X">>]>>]
Player_p2 == [IdTeam |-> "t2", IdPlayer |-> "p2", ShortName |-> <<>>]

PlayersJson(players) ==
    [status |-> "ok",
     json |-> [isDict |-> TRUE, Results |-> <<>>, Event |-> <<>>, Players |-> players]]

SquadResponses ==
    {Failed("http_error"), PlayersJson(<<>>), PlayersJson(<<Player_p2, Player_p1>>)}

MatchIdInputs == {"", "m1", "m2", "m9"}

UserInputs == {<<>>, <<" ">>, DefaultCredential, <<" ">> \o DefaultCredential, <<"e","v","e">>}
PasswordInputs == {<<>>, DefaultCredential, <<"x">>}

TickSteps == {900, 3600, 86400}

\* when the body of the query last ran for these arguments, -1 if never
PrevFetch(fn, args) ==
    IF \E e \in lastFetch : e.fn = fn /\ e.args = args
    THEN (CHOOSE e \in lastFetch : e.fn = fn /\ e.args = args).at
    ELSE -1

CallRecord(fn, args, r, failure, prev) ==
    [fn |-> fn, args |-> args, at |-> now, prev |-> prev,
     fetched |-> r.fetched, failure |-> failure, raised |-> r.raised,
     empty |-> r.value = EmptyFrame]

Fetched(fetches, fn, args, r) ==
    IF r.fetched
    THEN {e \in fetches : ~(e.fn = fn /\ e.args = args)}
             \cup {[fn |-> fn, args |-> args, at |-> now]}
    ELSE fetches

Init ==
    /\ SortIdle
    /\ ColorsIdle
    /\ AppIdle

Tick ==
    /\ nTicks < MaxTicks
    /\ \E d \in TickSteps : now' = now + d
    /\ nTicks' = nTicks + 1
    /\ UNCHANGED <<cacheStore, lastFetch, calls, authenticated, login_out, ADMIN_USER, ADMIN_PASS,
                   matchesStore, lay_out, lm_out, nRequests, sortVars, colorVars, queryVars, filterVars>>

\* do_signin for a click of the sign-in button with the two fields holding one
\* of these values
Click(users, pwds) ==
    /\ nRequests < MaxRequests
    /\ nRequests' = nRequests + 1
    /\ \E user \in users, pwd \in pwds :
         /\ login_out' = Submitted(user, pwd)
         /\ authenticated' = (authenticated \/ DoSignin(user, pwd).logged_in)
    /\ calls' = <<>>
    /\ UNCHANGED <<ADMIN_USER, ADMIN_PASS, now, cacheStore, lastFetch, matchesStore,
                   lay_out, lm_out, nTicks, sortVars, colorVars, queryVars, filterVars>>

\* the sign-in button of the login page, as the sessions of the running app use
\* it: no user name, the right one and a wrong one
SignIn == Click({<<>>, <<" ">> \o DefaultCredential, <<"e","v","e">>}, {DefaultCredential})

\* flask_logout (app.py), reached only by a logged-in user.  It is a plain Flask
\* route and not a Dash request: it ends the session of the sign-in that came
\* before it, so the bound on the sign-ins bounds it, and the page the browser
\* shows (with its pf-matches-store) stays as it is.
Logout ==
    /\ authenticated
    /\ authenticated' = FALSE
    /\ calls' = <<>>
    /\ UNCHANGED <<now, cacheStore, lastFetch, login_out, ADMIN_USER, ADMIN_PASS, matchesStore, lay_out, lm_out,
                   nTicks, nRequests, sortVars, colorVars, queryVars, filterVars>>

\* layout() of the performance page
Layout ==
    /\ nRequests < MaxRequests
    /\ nRequests' = nRequests + 1
    /\ IF ~authenticated
       THEN /\ lay_out' = [kind |-> "redirect_login", error |-> "", ids |-> {}]
            /\ matchesStore' = <<>>
            /\ calls' = <<>>
            /\ UNCHANGED <<cacheStore, lastFetch>>
       ELSE \E resp \in MatchResponses :
            LET args == <<SEASONID, "500">>
                r == Inner("get_matches", args, Timeout_get_matches,
                           GetMatches(resp), cacheStore, now)
                dated == WithDateOnly(SortFrame(r.value))
            IN  /\ calls' = <<CallRecord("get_matches", args, r, FailureOf(resp),
                                         PrevFetch("get_matches", args))>>
                /\ cacheStore' = r.store
                /\ lastFetch' = Fetched(lastFetch, "get_matches", args, r)
                /\ IF r.raised
                   THEN /\ lay_out' = [kind |-> "raised", error |-> "fetch", ids |-> {}]
                        /\ matchesStore' = <<>>
                   ELSE IF dated.raised
                   THEN /\ lay_out' = [kind |-> "raised", ids |-> {},
                                        error |-> "KeyError: 'KickoffDate'"]
                        /\ matchesStore' = <<>>
                   ELSE /\ lay_out' = [kind |-> "page", error |-> "",
                                        ids |-> {r.value.rows[i].MatchId :
                                                    i \in 1..Len(r.value.rows)}]
                        /\ matchesStore' = ToJsonRecords(dated.value.rows)
    /\ options' = <<>>
    /\ umo_in' = FiltersOff
    /\ rmv_out' = NotRestored
    /\ UNCHANGED <<now, authenticated, login_out, ADMIN_USER, ADMIN_PASS, lm_out, nTicks, selected,
                   pf_match, pending, sortVars, colorVars, queryVars>>

\* _load_match(match_id, data) with data the catalog of pf-matches-store
LoadMatch ==
    /\ nRequests < MaxRequests
    /\ nRequests' = nRequests + 1
    /\ \E match_id \in MatchIdInputs :
         LET found == SelectSeq(matchesStore, LAMBDA m : m.MatchId = match_id) IN
         IF match_id = "" \/ matchesStore = <<>>
         THEN /\ lm_out' = [LoadMatchIdle EXCEPT !.match_id = match_id,
                                                 !.kind = "prevent_update"]
              /\ calls' = <<>>
              /\ UNCHANGED <<cacheStore, lastFetch>>
         ELSE IF found = <<>>
         THEN /\ lm_out' = [LoadMatchIdle EXCEPT !.match_id = match_id, !.kind = "returned"]
              /\ calls' = <<>>
              /\ UNCHANGED <<cacheStore, lastFetch>>
         ELSE
         \E respE \in EventResponses, respH \in SquadResponses, respA \in SquadResponses :
         LET row   == found[1]
             argsE == <<match_id, COMPETITIONID, SEASONID, STAGEID>>
             argsS == <<row.HomeId, row.AwayId, COMPETITIONID, SEASONID>>
             ev == Inner("get_match_events", argsE, Timeout_get_match_events,
                         GetMatchEvents(respE), cacheStore, now)
             sq == Inner("get_players_for_teams", argsS, Timeout_get_players_for_teams,
                         GetPlayersForTeams(<<respH, respA>>), ev.store, now)
             callE == CallRecord("get_match_events", argsE, ev, FailureOf(respE),
                                 PrevFetch("get_match_events", argsE))
             callS == CallRecord("get_players_for_teams", argsS, sq,
                                 IF FailureOf(respH) # "none" THEN FailureOf(respH)
                                 ELSE FailureOf(respA),
                                 PrevFetch("get_players_for_teams", argsS))
         IN  IF ev.raised
             THEN /\ lm_out' = [match_id |-> match_id, inCatalog |-> TRUE,
                                 events |-> <<>>] @@ Raised("fetch")
                  /\ calls' = <<callE>>
                  /\ cacheStore' = ev.store
                  /\ lastFetch' = Fetched(lastFetch, "get_match_events", argsE, ev)
             ELSE /\ lm_out' = [match_id |-> match_id, inCatalog |-> TRUE,
                                 events |-> ev.value.rows]
                                  @@ Enrich(row, ev.value, sq.value)
                  /\ calls' = <<callE, callS>>
                  /\ cacheStore' = sq.store
                  /\ lastFetch' = Fetched(Fetched(lastFetch, "get_match_events", argsE, ev),
                                          "get_players_for_teams", argsS, sq)
    /\ UNCHANGED <<now, authenticated, login_out, ADMIN_USER, ADMIN_PASS, matchesStore, lay_out, nTicks,
                   sortVars, colorVars, queryVars, filterVars>>

\* The handlers read the clock only through the cached queries; the passing of
\* time between calls of the queries is the subject of SpecQueries.
Next == SignIn \/ Logout \/ Layout \/ LoadMatch

Spec == Init /\ [][Next]_vars

(***************************************************************************)
(* The filter callbacks of the performance page, from a signed-in session  *)
(***************************************************************************)
DateInputs == {None, Date01, Date02}
TeamInputs == {None, Team_Cd, Team_Zz, Team_ab_sp}
StoredIdInputs == {"", "m1", "m3", "m9"}

InitFilters ==
    /\ SortIdle
    /\ ColorsIdle
    /\ FiltersIdle
    /\ QueriesIdle
    /\ now = 0 /\ cacheStore = {} /\ lastFetch = {} /\ calls = <<>>
    /\ authenticated = TRUE
    /\ DefaultCredentials
    /\ login_out = Submitted(DefaultCredential, DefaultCredential)
    /\ matchesStore = <<>>
    /\ lay_out = [kind |-> "idle", error |-> "", ids |-> {}]
    /\ lm_out = LoadMatchIdle
    /\ nTicks = 0
    /\ nRequests = 0

\* _update_match_options(data, start_date, end_date, team) on the store
UpdateMatchOptionsCall ==
    /\ \E start_date \in DateInputs, end_date \in DateInputs, team \in TeamInputs :
         /\ options' = UpdateMatchOptions(matchesStore, start_date, end_date, team)
         /\ umo_in' = [fresh |-> TRUE, start_date |-> start_date, end_date |-> end_date,
                       team |-> team]
    /\ rmv_out' = NotRestored
    /\ UNCHANGED <<selected, pf_match, pending, appVars, sortVars, colorVars, queryVars>>

\* _remember_match(match_id): the user has changed the value of pf-match
RememberMatch ==
    /\ \E match_id \in StoredIdInputs : selected' = Remember(match_id)
    /\ umo_in' = [umo_in EXCEPT !.fresh = FALSE]
    /\ rmv_out' = NotRestored
    /\ UNCHANGED <<options, pf_match, pending, appVars, sortVars, colorVars, queryVars>>

\* _restore_match_value(options, stored_match_id)
RestoreMatchValueCall ==
    /\ rmv_out' = [fresh |-> TRUE, ret |-> RestoreMatchValue(options, selected)]
    /\ umo_in' = [umo_in EXCEPT !.fresh = FALSE]
    /\ UNCHANGED <<options, selected, pf_match, pending, appVars, sortVars, colorVars,
                   queryVars>>

NextFilters == Layout \/ UpdateMatchOptionsCall \/ RememberMatch \/ RestoreMatchValueCall

SpecFilters == InitFilters /\ [][NextFilters]_vars

(***************************************************************************)
(* The three cached queries called one at a time, as any caller may        *)
(***************************************************************************)
\* what the remote answers to a query called directly: every failure, an answer
\* without rows and an answer with rows
QueryMatchResponses ==
    FailedResponses \cup {MatchesJson(<<>>), MatchesJson(<<RawMatch2, RawMatch1>>)}

QueryEventResponses ==
    FailedResponses \cup {EventsJson(<<>>), EventsJson(<<CHOOSE e \in RawEventPool : TRUE>>)}

\* (season_id, count) of get_matches: the defaults, another season, another count
MatchesArgInputs == {<<SEASONID, "500">>, <<"278513", "500">>, <<SEASONID, "100">>}

\* (match_id, competition_id, season_id, stage_id) of get_match_events: the
\* defaults for a match, and one argument changed at a time
EventsArgInputs ==
    { <<"m1", COMPETITIONID, SEASONID, STAGEID>>, <<"m2", COMPETITIONID, SEASONID, STAGEID>>,
      <<"m1", "107", SEASONID, STAGEID>>, <<"m1", COMPETITIONID, SEASONID, "288441">> }
TeamIdInputs == {<<"t1", "t2">>, <<"t2", "t1">>}

\* one call of a cached query: the latest call, the backend and the time the
\* body last ran
Called(fn, args, r, failure) ==
    /\ nRequests < MaxCalls
    /\ nRequests' = nRequests + 1
    /\ calls' = <<CallRecord(fn, args, r, failure, PrevFetch(fn, args))>>
    /\ cacheStore' = r.store
    /\ lastFetch' = Fetched(lastFetch, fn, args, r)
    /\ UNCHANGED <<now, authenticated, login_out, ADMIN_USER, ADMIN_PASS, matchesStore, lay_out, lm_out, nTicks,
                   sortVars, colorVars, queryVars, filterVars>>

CallGetMatches ==
    \E key \in MatchesArgInputs, resp \in QueryMatchResponses :
        Called("get_matches", key,
               Inner("get_matches", key, Timeout_get_matches,
                     GetMatches(resp), cacheStore, now),
               FailureOf(resp))

CallGetMatchEvents ==
    \E key \in EventsArgInputs, resp \in QueryEventResponses :
        Called("get_match_events", key,
               Inner("get_match_events", key,
                     Timeout_get_match_events, GetMatchEvents(resp), cacheStore, now),
               FailureOf(resp))

CallGetPlayersForTeams ==
    \E team_ids \in TeamIdInputs, respH \in SquadResponses, respA \in SquadResponses :
        Called("get_players_for_teams", team_ids \o <<COMPETITIONID, SEASONID>>,
               Inner("get_players_for_teams", team_ids \o <<COMPETITIONID, SEASONID>>,
                     Timeout_get_players_for_teams, GetPlayersForTeams(<<respH, respA>>),
                     cacheStore, now),
               IF FailureOf(respH) # "none" THEN FailureOf(respH) ELSE FailureOf(respA))

NextQueries == Tick \/ CallGetMatches \/ CallGetMatchEvents \/ CallGetPlayersForTeams

SpecQueries == Init /\ [][NextQueries]_vars

\* C1 as stated: a cached query called again with the same arguments before
\* its TTL has passed since its body last ran does not run the body again, and
\* a call at or after that time runs it.
C1_RepeatWithinTTLDoesNotFetch ==
    \A i \in 1..Len(calls) :
        calls[i].prev >= 0 =>
            IF calls[i].at < calls[i].prev + TimeoutOf(calls[i].fn)
            THEN ~calls[i].fetched
            ELSE calls[i].fetched

\* C2: get_matches and get_match_events do not raise, and after a transport
\* failure, a non-2xx status or an exception on the response they return an
\* empty frame.
C2_FetchFailureGivesEmptyResult ==
    \A i \in 1..Len(calls) :
        calls[i].fn \in {"get_matches", "get_match_events"} =>
            /\ ~calls[i].raised
            /\ calls[i].failure # "none" => calls[i].empty

\* C2 witness: after a call of get_matches, get_match_events has met a non-2xx
\* status, has not raised and has returned the empty frame
C2_Witness ==
    /\ \E i \in 1..Len(calls) :
         /\ calls[i].fn = "get_match_events"
         /\ calls[i].failure = "http_error"
         /\ calls[i].fetched /\ calls[i].empty /\ ~calls[i].raised
    /\ \E e \in lastFetch : e.fn = "get_matches"

\* C3 as stated: with a catalog match selected and its event fetch failed,
\* _load_match returns an empty table.
C3_FailedEventsGiveEmptyView ==
    ( /\ lm_out.kind # "idle" /\ lm_out.inCatalog
      /\ \E i \in 1..Len(calls) :
           calls[i].fn = "get_match_events" /\ calls[i].at = now
           /\ calls[i].failure # "none" )
        => (lm_out.kind = "returned" /\ lm_out.table = <<>>)

\* position of the row with id m in frame df
PosIn(df, m) == CHOOSE i \in 1..Len(df) : df[i].MatchId = m

\* C8: of two output rows whose GroupName parses to a letter, the one with the
\* lower letter comes first, whatever the kickoff dates.
C8_LowerGroupLetterFirst ==
    sm_done =>
        LET out == AssignRanks(sm_out) IN
        \A i, j \in 1..Len(out) :
            ( /\ out[i]._g # NoGroupRank /\ out[j]._g # NoGroupRank
              /\ out[i]._g < out[j]._g ) => i < j

\* C8 witness: a lower-letter match with the later date, given second, comes out first
C8_Witness ==
    /\ sm_done
    /\ LET out == AssignRanks(sm_out) IN
       \E i, j \in 1..Len(out) :
         /\ i < j
         /\ out[i]._g # NoGroupRank /\ out[j]._g # NoGroupRank
         /\ out[i]._g < out[j]._g
         /\ StrLess(sm_out[j].KickoffDate, sm_out[i].KickoffDate)
         /\ PosIn(sm_in, sm_out[j].MatchId) < PosIn(sm_in, sm_out[i].MatchId)

C10_TiesByDateThenName ==
    sm_done =>
        LET out == AssignRanks(sm_out) IN
        \A i, j \in 1..Len(out) :
            ( /\ out[i]._g = out[j]._g
              /\ out[i]._s = out[j]._s
              /\ \/ StrLess(sm_out[i].KickoffDate, sm_out[j].KickoffDate)
                 \/ /\ sm_out[i].KickoffDate = sm_out[j].KickoffDate
                    /\ StrLess(sm_out[i].MatchName, sm_out[j].MatchName) ) => i < j

\* C10 witness: equal ranks and dates, the smaller name was given second and comes first
C10_Witness ==
    /\ sm_done
    /\ LET out == AssignRanks(sm_out) IN
       \E i, j \in 1..Len(out) :
         /\ i < j
         /\ out[i]._g = out[j]._g
         /\ out[i]._s = out[j]._s
         /\ sm_out[i].KickoffDate = sm_out[j].KickoffDate
         /\ StrLess(sm_out[i].MatchName, sm_out[j].MatchName)
         /\ PosIn(sm_in, sm_out[j].MatchId) < PosIn(sm_in, sm_out[i].MatchId)

KeywordRank ==
    <<StageGroup, StageRound16, StageQuarter, StageSemi, StageThird, StageFinal>>

\* keyword k occurs in the lower-cased name s
KeywordOccurs(k, s) ==
    CASE k = 1 -> Contains(s, <<"g","r","o","u","p">>)
      [] k = 2 -> MatchesRoundOf16(s)
      [] k = 3 -> Contains(s, <<"q","u","a","r","t","e","r">>)
      [] k = 4 -> Contains(s, <<"s","e","m","i">>)
      [] k = 5 -> Contains(s, <<"t","h","i","r","d">>) \/ Contains(s, <<"3","r","d">>)
      [] k = 6 -> Contains(s, <<"f","i","n","a","l">>)

\* C12: the stage rank is the rank of the first keyword, in the order group,
\* round-of-16, quarterfinal, semifinal, third-place, final, that occurs
\* case-insensitively in StageName; 'Semi-final', 'Quarter-final' and 'Third
\* place Final' get 400, 300 and 500; a name without keyword, empty or None,
\* gets 700.
C12_FirstKeywordDecidesStage ==
    st_done =>
        LET s == StrLower(IF st_in = None THEN <<>> ELSE st_in) IN
        /\ \A k \in 1..6 :
              (st_out = KeywordRank[k])
                  <=> (KeywordOccurs(k, s) /\ \A j \in 1..(k - 1) : ~KeywordOccurs(j, s))
        /\ (st_out = StageUnknown) <=> (\A k \in 1..6 : ~KeywordOccurs(k, s))
        /\ st_in = SN_SemiFinal => st_out = StageSemi
        /\ st_in = SN_QuarterFinal => st_out = StageQuarter
        /\ st_in = SN_ThirdPlaceFinal => st_out = StageThird
        /\ st_in = Frag_Final => st_out = StageFinal
        /\ st_in \in {<<>>, None} => st_out = StageUnknown

\* C12 witness: 'Semi-final', which holds both 'semi' and 'final', was ranked 400
C12_Witness ==
    st_done /\ st_in = SN_SemiFinal /\ st_out = StageSemi

\* C13: when a selection is stored and its id is a value of the new, non-empty
\* option list, _restore_match_value returns that id.
C13_StoredSelectionRestored ==
    ( /\ rmv_out.fresh
      /\ options # <<>>
      /\ selected # ""
      /\ \E i \in 1..Len(options) : options[i].value = selected )
        => rmv_out.ret = selected

\* C13 witness: the stored id is the second of several options and was returned
C13_Witness ==
    /\ rmv_out.fresh
    /\ Len(options) >= 2
    /\ selected # "" /\ options[2].value = selected
    /\ rmv_out.ret = selected

\* C14: _restore_match_value returns no_update, never an empty value and never
\* an id outside the options, when the option list is empty, when nothing is
\* stored, and when the stored id is no value of the options.
C14_StaleSelectionLeftUntouched ==
    rmv_out.fresh =>
        /\ ( \/ options = <<>>
             \/ selected = ""
             \/ \A i \in 1..Len(options) : options[i].value # selected )
            => rmv_out.ret = NoUpdate
        /\ rmv_out.ret # ""
        /\ rmv_out.ret # NoUpdate => \E i \in 1..Len(options) : options[i].value = rmv_out.ret

\* C14 witness: a stored id that is no value of the non-empty options gave no_update
C14_Witness ==
    /\ rmv_out.fresh
    /\ options # <<>>
    /\ selected # ""
    /\ \A i \in 1..Len(options) : options[i].value # selected
    /\ rmv_out.ret = NoUpdate

\* a bound of the date range is set
BoundSet(d) == d # None /\ d # <<>>

\* the stored match r is inside the date range and plays for the team of the
\* filters of the call just made
PassesFilters(r) ==
    LET d == DateOnly(r.KickoffDateOnly) IN
    /\ BoundSet(umo_in.start_date) => (d # NoDate /\ d >= DateOnly(umo_in.start_date))
    /\ BoundSet(umo_in.end_date) => (d # NoDate /\ d <= DateOnly(umo_in.end_date))
    /\ BoundSet(umo_in.team) => (r.HomeName = umo_in.team \/ r.AwayName = umo_in.team)

\* C15: _update_match_options returns exactly one option, whose value is the
\* MatchId, per stored match whose KickoffDateOnly is within [start, end]
\* (inclusive, a missing bound leaving its side open) and, when a team is
\* selected, whose HomeName or AwayName is that team, and no other option.
C15_OptionsAreTheFilteredMatches ==
    umo_in.fresh =>
        /\ \A k \in 1..Len(matchesStore) :
              Cardinality({i \in 1..Len(options) :
                              options[i].value = matchesStore[k].MatchId})
                  = IF PassesFilters(matchesStore[k]) THEN 1 ELSE 0
        /\ \A i \in 1..Len(options) :
              \E k \in 1..Len(matchesStore) : options[i].value = matchesStore[k].MatchId

\* C15 witness: with both bounds and a team set, some matches of the store are
\* options (one for its away side only, one dated on a bound) and some are not
C15_Witness ==
    /\ umo_in.fresh
    /\ BoundSet(umo_in.start_date) /\ BoundSet(umo_in.end_date) /\ BoundSet(umo_in.team)
    /\ 0 < Len(options) /\ Len(options) < Len(matchesStore)
    /\ \E k \in 1..Len(matchesStore) :
         /\ PassesFilters(matchesStore[k])
         /\ matchesStore[k].HomeName # umo_in.team
         /\ matchesStore[k].KickoffDateOnly = umo_in.end_date

\* C16: the options are in the relative order of their matches in the store,
\* for every date range and team filter.
C16_OptionsKeepStoreOrder ==
    umo_in.fresh =>
        \A i, j \in 1..Len(options) :
            i < j => PosIn(matchesStore, options[i].value)
                         < PosIn(matchesStore, options[j].value)

\* C16 witness: a filter has dropped the middle match of a store of three
C16_Witness ==
    /\ umo_in.fresh
    /\ Len(matchesStore) = 3 /\ Len(options) = 2
    /\ options[1].value = matchesStore[1].MatchId
    /\ options[2].value = matchesStore[3].MatchId

RECURSIVE DecimalValue(_)
DecimalValue(ds) ==
    IF ds = <<>> THEN 0
    ELSE 10 * DecimalValue(SubSeq(ds, 1, Len(ds) - 1)) + (Ord(ds[Len(ds)]) - 48)

\* C18: the minute of an event of the detail view is the number written by the
\* first maximal run of digits of its MatchMinute, 0 when it holds no digit:
\* '45+2' gives 45, 'HT' gives 0, '12' gives 12.
C18_MinuteIsFirstDigitRun ==
    lm_out.kind = "returned" =>
        /\ Len(lm_out.minutes) = Len(lm_out.table)
        /\ \A i \in 1..Len(lm_out.table) :
              LET s == lm_out.table[i].MatchMinute
                  m == lm_out.minutes[i]
              IN  /\ (\A k \in 1..Len(s) : ~IsDigit(s[k])) => m = 0
                  /\ (\E k \in 1..Len(s) : IsDigit(s[k])) =>
                        \E a, b \in 1..Len(s) :
                            /\ a <= b
                            /\ \A k \in a..b : IsDigit(s[k])
                            /\ \A k \in 1..(a - 1) : ~IsDigit(s[k])
                            /\ b = Len(s) \/ ~IsDigit(s[b + 1])
                            /\ m = DecimalValue(SubSeq(s, a, b))
                  /\ s = Minute_45_2 => m = 45
                  /\ s = Minute_HT => m = 0
                  /\ s = Minute_12 => m = 12

\* C18 witness: a detail view of two events, at '45+2' and at 'HT'
C18_Witness ==
    /\ lm_out.kind = "returned"
    /\ \E i, j \in 1..Len(lm_out.table) :
         /\ lm_out.table[i].MatchMinute = Minute_45_2 /\ lm_out.minutes[i] = 45
         /\ lm_out.table[j].MatchMinute = Minute_HT /\ lm_out.minutes[j] = 0

\* C19 as stated: when the event fetch has succeeded, _load_match returns,
\* whatever the squads fetched (both squad fetches failed included), and the
\* PlayerName of every event of its table is a name of the squads or blank.
C19_MissingPlayersGetBlankNames ==
    ( /\ lm_out.kind # "idle" /\ lm_out.inCatalog
      /\ \E i \in 1..Len(calls) :
           calls[i].fn = "get_match_events" /\ calls[i].failure = "none" )
        => /\ lm_out.kind = "returned"
           /\ \A i \in 1..Len(lm_out.table) :
                 lm_out.table[i].PlayerName
                     \in {<<>>, Desc(Player_p1.ShortName, <<>>), Desc(Player_p2.ShortName, <<>>)}

\* C20: a call of a cached query whose arguments differ from those of every
\* earlier call is answered by a fetch made with its own arguments, never by
\* the entry of another call.
C20_DifferentArgumentsNeverShareEntry ==
    \A i \in 1..Len(calls) :
        calls[i].prev = -1 => calls[i].fetched

\* C20 witness: a first call made within the TTL of an earlier call of the
\* same query with other arguments, and answered by its own fetch
C20_Witness ==
    \E i \in 1..Len(calls) :
        /\ calls[i].prev = -1 /\ calls[i].fetched
        /\ \E e \in lastFetch :
             /\ e.fn = calls[i].fn /\ e.args # calls[i].args
             /\ calls[i].at < e.at + TimeoutOf(e.fn)

(***************************************************************************)
(* Requests served at the same time, each calling get_matches()            *)
(***************************************************************************)
\* the requests the server works on at once
MaxWorkers == 2

\* what the remote answers to the requests served together: a failure and two
\* different catalogs
RequestResponses ==
    {Failed("http_error"), MatchesJson(<<RawMatch1>>), MatchesJson(<<RawMatch2, RawMatch1>>)}

\* _inner reaches one of its two memoizing branches
Memoizes ==
    CacheExtension.truthy /\ {"cache", "memoize"} \cap CacheExtension.attrs # {}

\* nothing has returned yet
NoneSeen == [by |-> 0, value |-> EmptyFrame, failed |-> FALSE, live |-> FALSE, late |-> FALSE]

\* What the call of get_matches that returned last gave, as a call entering
\* now finds it: the run of the body that produced it (by), whether its TTL is
\* still running since it was written back (live), and whether that call had
\* itself entered after the TTL of the result before it (late).
LastReturned ==
    IF \E i \in 1..Len(requests) : requests[i].pc = "returned"
    THEN LET r == requests[CHOOSE i \in 1..Len(requests) : requests[i].pc = "returned"]
         IN  [by |-> r.by, value |-> r.value, failed |-> r.failed,
              live |-> now < r.doneAt + Timeout_get_matches,
              late |-> r.seen.by # 0 /\ ~r.seen.live]
    ELSE NoneSeen

\* requests keeps the calls in progress and the one that returned last
Settle(reqs, id) == SelectSeq(reqs, LAMBDA r : r.pc # "returned" \/ r.id = id)

\* A request enters _inner; seen is what the call that returned last had given.
\* In a memoizing branch a live entry is returned at once; otherwise the body
\* of get_matches is called.
ReqCall ==
    /\ nRequests < MaxRequests
    /\ Cardinality({i \in 1..Len(requests) : requests[i].pc # "returned"}) < MaxWorkers
    /\ nRequests' = nRequests + 1
    /\ LET args == <<SEASONID, "500">>
           live == LiveEntries(cacheStore, "get_matches", args, now)
           hit  == CHOOSE e \in live : TRUE
           id   == nRequests + 1
       IN  requests' =
               IF Memoizes /\ live # {}
               THEN Settle(Append(requests,
                        [id |-> id, pc |-> "returned", seen |-> LastReturned,
                         value |-> hit.value, failed |-> hit.failed, by |-> hit.by,
                         doneAt |-> hit.doneAt]), id)
               ELSE Append(requests,
                        [id |-> id, pc |-> "called", seen |-> LastReturned,
                         value |-> EmptyFrame, failed |-> FALSE, by |-> 0, doneAt |-> -1])
    /\ UNCHANGED <<gm_in, gm_out, gm_done, gp_in, gp_out, gp_done,
                   now, cacheStore, lastFetch, calls, authenticated, login_out, ADMIN_USER, ADMIN_PASS,
                   matchesStore, lay_out, lm_out, nTicks,
                   sortVars, colorVars, filterVars>>

\* the answer of the remote arrives and the body of get_matches finishes
ReqFetch ==
    /\ \E i \in 1..Len(requests), resp \in RequestResponses :
         /\ requests[i].pc = "called"
         /\ requests' = [requests EXCEPT ![i] =
                [@ EXCEPT !.pc = "fetched", !.value = GetMatches(resp).value,
                          !.failed = (FailureOf(resp) # "none"), !.by = requests[i].id]]
    /\ UNCHANGED <<gm_in, gm_out, gm_done, gp_in, gp_out, gp_done,
                   sortVars, colorVars, appVars, filterVars>>

\* _inner returns what the body gave; a memoizing branch first writes it to the
\* backend, replacing the entry of the same arguments
ReqReturn ==
    /\ \E i \in 1..Len(requests) :
         /\ requests[i].pc = "fetched"
         /\ requests' = Settle([requests EXCEPT ![i] =
                                   [@ EXCEPT !.pc = "returned", !.doneAt = now]],
                               requests[i].id)
         /\ cacheStore' =
                IF Memoizes
                THEN {e \in cacheStore : e.fn # "get_matches"}
                         \cup {[fn |-> "get_matches", args |-> <<SEASONID, "500">>,
                                value |-> requests[i].value, failed |-> requests[i].failed,
                                by |-> requests[i].by, doneAt |-> now,
                                expires |-> now + Timeout_get_matches]}
                ELSE cacheStore
    /\ UNCHANGED <<gm_in, gm_out, gm_done, gp_in, gp_out, gp_done,
                   now, lastFetch, calls, authenticated, login_out, ADMIN_USER, ADMIN_PASS, matchesStore,
                   lay_out, lm_out, nTicks, nRequests,
                   sortVars, colorVars, filterVars>>

NextRequests == Tick \/ ReqCall \/ ReqFetch \/ ReqReturn

SpecRequests == Init /\ [][NextRequests]_vars

\* C21 as stated: a result written after the expiry of the one before it is
\* what every later call of get_matches with the same arguments returns for as
\* long as it lives, whatever the interleaving of the requests.
C21_LaterWriteSupersedes ==
    \A i \in 1..Len(requests) :
        LET r == requests[i] IN
        (/\ r.pc = "returned"
         /\ r.seen.late
         /\ r.seen.live)
            => r.value = r.seen.value

(***************************************************************************)
(* The body of get_matches applied to bounded responses                    *)
(***************************************************************************)
MaxRecords == 2

\* Raw match records: a complete one and records that lack part of their
\* structure. A key that is absent from the record is absent from the JSON
\* object (a null Home, Away or descriptor list reads the same).
Rec_NoHome ==
    [IdMatch |-> "m2",
     StageName |-> <<[Description |-> SN_Final]>>,
     GroupName |-> <<>>,
     Away |-> [IdTeam |-> "t1", ShortClubName |-> Team_Ab, TeamName |-> <<>>],
     LocalDate |-> <<>>, Date |-> Date01]

Rec_NoAway ==
    [IdMatch |-> "m3",
     StageName |-> <<[Description |-> SN_GroupStage]>>,
     GroupName |-> <<[Description |-> GN_GroupB]>>,
     Home |-> [IdTeam |-> "t3", ShortClubName |-> Team_Zz, TeamName |-> Team_Zz],
     LocalDate |-> Date02]

Rec_NoDescriptors ==
    [IdMatch |-> "m4",
     Home |-> [IdTeam |-> "t1", TeamName |-> Team_Ab],
     Away |-> [IdTeam |-> "t2", ShortClubName |-> Team_Cd],
     Date |-> Date01]

Rec_NoDescription ==
    [IdMatch |-> "m5",
     StageName |-> <<[Locale |-> "en-GB"]>>,
     GroupName |-> <<[Locale |-> "en-GB"], [Description |-> GN_GroupA]>>,
     Home |-> [IdTeam |-> "t1", ShortClubName |-> Team_Ab, TeamName |-> Team_Ab],
     Away |-> [IdTeam |-> "t2", ShortClubName |-> Team_Cd, TeamName |-> Team_Cd],
     LocalDate |-> Date01, Date |-> Date02]

Rec_NoNames ==
    [IdMatch |-> "m6",
     StageName |-> <<[Description |-> SN_GroupStage]>>,
     GroupName |-> <<[Description |-> GN_GroupA]>>,
     Home |-> [IdTeam |-> "t1"],
     Away |-> [IdTeam |-> "t2", ShortClubName |-> <<>>],
     LocalDate |-> Date01]

Rec_NoDate ==
    [IdMatch |-> "m7",
     StageName |-> <<[Description |-> SN_GroupStage]>>,
     GroupName |-> <<[Description |-> GN_GroupA]>>,
     Home |-> [IdTeam |-> "t1", ShortClubName |-> Team_Ab],
     Away |-> [IdTeam |-> "t2", ShortClubName |-> Team_Cd]]

Rec_DateOnly == [Date |-> Date02]

Rec_NullTeamName ==
    [IdMatch |-> "m8",
     StageName |-> <<[Description |-> SN_GroupStage]>>,
     GroupName |-> <<[Description |-> GN_GroupA]>>,
     Home |-> [IdTeam |-> "t1", ShortClubName |-> <<>>, TeamName |-> None],
     Away |-> [IdTeam |-> "t2", ShortClubName |-> Team_Cd, TeamName |-> None],
     LocalDate |-> None, Date |-> Date01]

RawRecordPool ==
    {RawMatch1, Rec_NoHome, Rec_NoAway, Rec_NoDescriptors, Rec_NoDescription,
     Rec_NoNames, Rec_NoDate, Rec_DateOnly, Rec_NullTeamName}

InitRecords ==
    /\ SortIdle
    /\ ColorsIdle
    /\ ServerIdle
    /\ GetPlayersIdle
    /\ RequestsIdle
    /\ \/ gm_in \in FailedResponses
       \/ \E n \in 0..MaxRecords : \E f \in [1..n -> RawRecordPool] : gm_in = MatchesJson(f)
    /\ gm_out = <<>>
    /\ gm_done = FALSE

\* get_matches() with the remote answering gm_in
GetMatchesCall ==
    /\ ~gm_done
    /\ gm_out' = GetMatches(gm_in)
    /\ gm_done' = TRUE
    /\ UNCHANGED <<gm_in, gp_in, gp_out, gp_done, requests,
                   sortVars, colorVars, appVars, filterVars>>

NextRecords == GetMatchesCall

SpecRecords == InitRecords /\ [][NextRecords]_vars

\* the record has no descriptor to read under key k: no list, an empty list,
\* or a first element without Description
NoDescriptor(m, k) ==
    \/ k \notin DOMAIN m
    \/ m[k] = <<>>
    \/ "Description" \notin DOMAIN m[k][1]

\* the record has no name for the side under key k: no object, or an object
\* with neither name field
NoNameField(m, k) ==
    \/ k \notin DOMAIN m
    \/ {"ShortClubName", "TeamName"} \cap DOMAIN m[k] = {}

LoadedStore ==
    ToJsonRecords(
        WithDateOnly(SortFrame(GetMatches(MatchesJson(<<RawMatch3, RawMatch2, RawMatch1>>)).value))
            .value.rows)

\* The page has just been loaded in a fresh browser session: the stores are as
\* layout() creates them and the callbacks without prevent_initial_call are
\* due; _update_match_options writes the input of _restore_match_value, which
\* therefore runs after it.
InitSelection ==
    /\ SortIdle
    /\ ColorsIdle
    /\ QueriesIdle
    /\ now = 0 /\ cacheStore = {} /\ lastFetch = {} /\ calls = <<>>
    /\ authenticated = TRUE
    /\ DefaultCredentials
    /\ login_out = Submitted(DefaultCredential, DefaultCredential)
    /\ matchesStore = LoadedStore
    /\ lay_out = [kind |-> "page", error |-> "", ids |-> {"m1", "m2", "m3"}]
    /\ lm_out = LoadMatchIdle
    /\ nTicks = 0
    /\ nRequests = 0
    /\ options = <<>>
    /\ umo_in = FiltersOff
    /\ selected = ""
    /\ rmv_out = NotRestored
    /\ pf_match = ""
    /\ pending = {"_update_match_options"}

\* the user picks one of the options of the match dropdown
PickMatch ==
    /\ pending = {}
    /\ \E i \in 1..Len(options) : pf_match' = options[i].value
    /\ pending' = {"_remember_match"}
    /\ umo_in' = [umo_in EXCEPT !.fresh = FALSE]
    /\ rmv_out' = NotRestored
    /\ UNCHANGED <<options, selected, appVars, sortVars, colorVars, queryVars>>

\* the user clears the match dropdown
ClearMatch ==
    /\ pending = {}
    /\ pf_match # ""
    /\ pf_match' = ""
    /\ pending' = {"_remember_match"}
    /\ umo_in' = [umo_in EXCEPT !.fresh = FALSE]
    /\ rmv_out' = NotRestored
    /\ UNCHANGED <<options, selected, appVars, sortVars, colorVars, queryVars>>

\* the user changes the date range or the team
ChangeFilters ==
    /\ pending = {}
    /\ \E start_date \in DateInputs, end_date \in DateInputs, team \in TeamInputs :
         umo_in' = [fresh |-> FALSE, start_date |-> start_date, end_date |-> end_date,
                    team |-> team]
    /\ pending' = {"_update_match_options"}
    /\ rmv_out' = NotRestored
    /\ UNCHANGED <<options, selected, pf_match, appVars, sortVars, colorVars, queryVars>>

\* _update_match_options runs and writes pf-match options, the input of
\* _restore_match_value. A dropdown whose value is no longer among its options
\* keeps it or drops it, depending on the component: both are modelled.
RunUpdateMatchOptions ==
    /\ "_update_match_options" \in pending
    /\ LET opts == UpdateMatchOptions(matchesStore, umo_in.start_date, umo_in.end_date,
                                      umo_in.team)
       IN  /\ options' = opts
           /\ \/ /\ pf_match' = pf_match
                 /\ pending' = (pending \ {"_update_match_options"})
                                   \cup {"_restore_match_value"}
              \/ /\ pf_match # ""
                 /\ pf_match \notin OptionValues(opts)
                 /\ pf_match' = ""
                 /\ pending' = (pending \ {"_update_match_options"})
                                   \cup {"_restore_match_value", "_remember_match"}
    /\ umo_in' = [umo_in EXCEPT !.fresh = TRUE]
    /\ rmv_out' = NotRestored
    /\ UNCHANGED <<selected, appVars, sortVars, colorVars, queryVars>>

\* _remember_match(pf-match value) runs and writes pf-selected-match
RunRememberMatch ==
    /\ "_remember_match" \in pending
    /\ selected' = IF Remember(pf_match) = NoUpdate THEN selected ELSE Remember(pf_match)
    /\ pending' = pending \ {"_remember_match"}
    /\ umo_in' = [umo_in EXCEPT !.fresh = FALSE]
    /\ rmv_out' = NotRestored
    /\ UNCHANGED <<options, pf_match, appVars, sortVars, colorVars, queryVars>>

\* _restore_match_value(options, pf-selected-match) runs; a value it returns is
\* written to pf-match, the input of _remember_match. `before` is the value the
\* dropdown showed when it ran.
RunRestoreMatchValue ==
    /\ "_restore_match_value" \in pending
    /\ LET ret == RestoreMatchValue(options, selected) IN
         /\ rmv_out' = [fresh |-> TRUE, ret |-> ret, before |-> pf_match]
         /\ IF ret = NoUpdate
            THEN /\ pf_match' = pf_match
                 /\ pending' = pending \ {"_restore_match_value"}
            ELSE /\ pf_match' = ret
                 /\ pending' = (pending \ {"_restore_match_value"}) \cup {"_remember_match"}
    /\ umo_in' = [umo_in EXCEPT !.fresh = FALSE]
    /\ UNCHANGED <<options, selected, appVars, sortVars, colorVars, queryVars>>

NextSelection ==
    \/ PickMatch \/ ClearMatch \/ ChangeFilters
    \/ RunUpdateMatchOptions \/ RunRememberMatch \/ RunRestoreMatchValue

SpecSelection == InitSelection /\ [][NextSelection]_vars

\* C23: whenever no callback is due, pf-selected-match holds the value the match
\* dropdown shows, the empty one included; and a value _restore_match_value
\* returns is the one the dropdown showed when it ran, so that it re-selects
\* nothing after a clear.
C23_StoredSelectionFollowsDropdown ==
    /\ pending = {} => selected = pf_match
    /\ (rmv_out.fresh /\ rmv_out.ret # NoUpdate) => rmv_out.ret = rmv_out.before

\* a match was picked, the filters were then changed to the matches of one of
\* its teams, and _restore_match_value has just returned the picked match,
\* which pf-selected-match holds
C23_Witness ==
    /\ pending = {"_remember_match"}
    /\ rmv_out.fresh
    /\ rmv_out.ret = "m1"
    /\ rmv_out.before = "m1"
    /\ pf_match = "m1"
    /\ selected = "m1"
    /\ umo_in.team = Team_Cd

\* C24 as stated: while the TTL of an empty result that a failed fetch left is
\* running, a call of get_matches with the same arguments returns that empty
\* result without a fetch of its own; the remote is asked again only after the
\* TTL.
C24_FailureServedUntilTTL ==
    \A i \in 1..Len(requests) :
        LET r == requests[i] IN
        (/\ r.pc = "returned"
         /\ r.seen.by # 0
         /\ r.seen.failed
         /\ r.seen.live)
            => (r.value = EmptyFrame /\ r.by = r.seen.by)

(***************************************************************************)
(* The body of get_players_for_teams applied to bounded team lists         *)
(***************************************************************************)
MaxTeams == 2

\* what the remote answers to the squad request of one team: every failure, a
\* squad without player, and squads of one and of two players
TeamSquadResponses ==
    FailedResponses \cup
    {PlayersJson(<<>>), PlayersJson(<<Player_p1>>), PlayersJson(<<Player_p2>>),
     PlayersJson(<<Player_p2, Player_p1>>)}

InitSquads ==
    /\ SortIdle
    /\ ColorsIdle
    /\ ServerIdle
    /\ GetMatchesIdle
    /\ RequestsIdle
    /\ \E n \in 0..MaxTeams : gp_in \in [1..n -> TeamSquadResponses]
    /\ gp_out = <<>>
    /\ gp_done = FALSE

\* get_players_for_teams(team_ids) with the remote answering gp_in[i] for the
\* i-th team id
GetPlayersForTeamsCall ==
    /\ ~gp_done
    /\ gp_out' = GetPlayersForTeams(gp_in)
    /\ gp_done' = TRUE
    /\ UNCHANGED <<gp_in, gm_in, gm_out, gm_done, requests,
                   sortVars, colorVars, appVars, filterVars>>

NextSquads == GetPlayersForTeamsCall

SpecSquads == InitSquads /\ [][NextSquads]_vars

\* the (IdTeam, IdPlayer) of the players a team's answer holds, none when its
\* fetch failed
PlayersOfTeam(resp) ==
    IF FailureOf(resp) # "none" THEN <<>>
    ELSE [j \in 1..Len(resp.json.Players) |->
             <<resp.json.Players[j].IdTeam, resp.json.Players[j].IdPlayer>>]

RECURSIVE PlayersOfTeams(_)
PlayersOfTeams(resps) ==
    IF resps = <<>> THEN <<>>
    ELSE PlayersOfTeam(Head(resps)) \o PlayersOfTeams(Tail(resps))

\* C25: get_players_for_teams never raises; its rows are the players of the
\* teams whose squad fetch succeeded, team after team in team_ids order and
\* within a team in the order of the answer, whatever happened to the other
\* teams; it is empty exactly when no team gave a player.
C25_SquadsDegradePerTeam ==
    gp_done =>
        LET rows == gp_out.value.rows IN
        /\ ~gp_out.raised
        /\ [k \in 1..Len(rows) |-> <<rows[k].TeamId, rows[k].PlayerId>>]
               = PlayersOfTeams(gp_in)
        /\ FrameEmpty(gp_out.value)
               <=> \A i \in 1..Len(gp_in) :
                       FailureOf(gp_in[i]) # "none" \/ gp_in[i].json.Players = <<>>

\* the squad fetch of the first team failed with a non-2xx status, that of the
\* second gave two players, and the result holds exactly these two
C25_Witness ==
    /\ gp_done
    /\ Len(gp_in) = 2
    /\ FailureOf(gp_in[1]) = "http_error"
    /\ gp_in[2] = PlayersJson(<<Player_p2, Player_p1>>)
    /\ Len(gp_out.value.rows) = 2
    /\ gp_out.value.rows[1].PlayerId = "p2"
    /\ gp_out.value.rows[2].PlayerId = "p1"

\* the events of the fetched list whose Description is one of the two
\* attacking labels, in the order of the list
FetchedAttackingEvents == SelectSeq(lm_out.events, LAMBDA e : e.Description \in AttackingEvents)

\* C26 as stated: the table _load_match returns holds one row per attacking
\* event of the fetched list, in the order of the list, whatever the squad
\* list is.
C26_OneRowPerAttackingEvent ==
    (lm_out.kind = "returned" /\ lm_out.inCatalog) =>
        /\ Len(lm_out.table) = Len(FetchedAttackingEvents)
        /\ \A i \in 1..Len(lm_out.table) :
             /\ lm_out.table[i].Description = FetchedAttackingEvents[i].Description
             /\ lm_out.table[i].MatchMinute = FetchedAttackingEvents[i].MatchMinute

\* C27 as stated: the body of a remote query (get_matches, get_match_events,
\* get_players_for_teams) runs only in a handler that serves a signed-in user.
C27_FetchOnlyWhenAuthenticated ==
    \A i \in 1..Len(calls) : calls[i].fetched => authenticated

\* the primary and the secondary colour of a team as the store gives them: those
\* of its first row, #1f77b4 and #2ca02c for a team without row
PrimaryOf(name, df_colors) ==
    IF InStore(name, df_colors) THEN FirstRowOf(name, df_colors).home_color
    ELSE Color_1f77b4

SecondaryOf(name, df_colors) ==
    IF InStore(name, df_colors) THEN FirstRowOf(name, df_colors).away_color
    ELSE Color_2ca02c

\* C28: the first colour pick_colors returns is the home team's primary colour
\* of the store (#1f77b4 for a home team without row or an empty store),
\* whatever the away team is and whether or not the fallback fired; at most one
\* substitution is made and it replaces the second colour only, which is the
\* away team's primary without substitution and its secondary with it.
C28_HomeColorNeverSubstituted ==
    pc_done =>
        /\ pc_out.hc = PrimaryOf(pc_home, pc_store)
        /\ \A away \in TeamNamePool :
              PickColors(pc_home, away, pc_store).hc = pc_out.hc
        /\ pc_out.substitutions \in {0, 1}
        /\ pc_out.ac = IF pc_out.substitutions = 0
                       THEN PrimaryOf(pc_away, pc_store)
                       ELSE SecondaryOf(pc_away, pc_store)

\* C28 witness: two different stored teams of similar primaries; the fallback
\* has fired, the home colour is the home primary and the away colour the away
\* team's secondary
C28_Witness ==
    /\ pc_done /\ InStore(pc_home, pc_store) /\ InStore(pc_away, pc_store)
    /\ StrStrip(StrUpper(pc_home)) # StrStrip(StrUpper(pc_away))
    /\ pc_out.substitutions = 1
    /\ pc_out.hc = Color_2077B5
    /\ FirstRowOf(pc_away, pc_store).home_color = Color_1f77b4
    /\ pc_out.ac = Color_d62728

\* C29: the frame sort_matches returns holds every input row exactly once, with
\* the fields and the values it came with and without the temporary columns _g
\* and _s, and nothing else; an empty frame is returned as it is.
C29_SortIsAPermutation ==
    sm_done =>
        /\ Len(sm_out) = Len(sm_in)
        /\ \A i \in 1..Len(sm_in) :
              Cardinality({j \in 1..Len(sm_out) : sm_out[j] = sm_in[i]}) = 1
        /\ \A j \in 1..Len(sm_out) :
              /\ DOMAIN sm_out[j] = DOMAIN sm_in[PosIn(sm_in, sm_out[j].MatchId)]
              /\ "_g" \notin DOMAIN sm_out[j]
              /\ "_s" \notin DOMAIN sm_out[j]
        /\ sm_in = <<>> => sm_out = sm_in

\* C29 witness: three matches, the first two with the same four sort keys and
\* the third sorting before them; the output starts with the third and holds
\* the two others in their input order
C29_Witness ==
    /\ sm_done
    /\ Len(sm_in) = 3
    /\ LET ranked == AssignRanks(sm_in) IN
         /\ ~KeyLess(ranked[1], ranked[2]) /\ ~KeyLess(ranked[2], ranked[1])
         /\ KeyLess(ranked[3], ranked[1])
    /\ sm_out = <<sm_in[3], sm_in[1], sm_in[2]>>

(***************************************************************************)
(* The sign-in button under every configuration of the credentials         *)
(***************************************************************************)
InitSignIn ==
    /\ SortIdle
    /\ ColorsIdle
    /\ QueriesIdle
    /\ FiltersIdle
    /\ ADMIN_USER \in AdminUserEnv
    /\ ADMIN_PASS \in AdminPassEnv
    /\ now = 0 /\ cacheStore = {} /\ lastFetch = {} /\ calls = <<>>
    /\ authenticated = FALSE
    /\ login_out = NotSubmitted
    /\ matchesStore = <<>>
    /\ lay_out = [kind |-> "idle", error |-> "", ids |-> {}]
    /\ lm_out = LoadMatchIdle
    /\ nTicks = 0
    /\ nRequests = 0

\* the sign-in button with every pair of field values
SignInClick == Click(UserInputs, PasswordInputs)

NextSignIn == SignInClick

SpecSignIn == InitSignIn /\ [][NextSignIn]_vars

\* the sign-in button has been clicked
SignInClicked == login_out # NotSubmitted

\* the submitted user name, stripped, and the submitted password are the
\* configured credentials
CredentialsMatch == StrStrip(login_out.user) = ADMIN_USER /\ login_out.pwd = ADMIN_PASS

\* the handler showed an error alert and left the location alone
AlertAndNoRedirect ==
    /\ login_out.is_open
    /\ login_out.alert \in {"Please enter username and password.", "Invalid credentials."}
    /\ login_out.href = "no_update"

\* C30 as stated: a session is created and the handler redirects to "/" exactly
\* when the stripped user name equals ADMIN_USER and the password equals
\* ADMIN_PASS.
C30_Original_SessionIffCredentialsMatch ==
    SignInClicked =>
        /\ login_out.logged_in <=> CredentialsMatch
        /\ login_out.href = "/" <=> CredentialsMatch

\* C30 amended: a session is created and the handler redirects to "/" exactly
\* when the user name and the password are both non-empty, the stripped user
\* name equals ADMIN_USER and the password equals ADMIN_PASS; in every other
\* case no session is created, an error alert is shown and no redirect is
\* issued.  The first click on a fresh server leaves a session exactly in the
\* first case.
C30_SessionIffNonEmptyAndMatching ==
    SignInClicked =>
        LET accepted == /\ login_out.user # <<>> /\ login_out.pwd # <<>>
                        /\ CredentialsMatch
        IN  /\ login_out.logged_in <=> accepted
            /\ login_out.href = "/" <=> accepted
            /\ accepted => ~login_out.is_open
            /\ ~accepted => AlertAndNoRedirect
            /\ nRequests = 1 => (authenticated <=> accepted)

\* C30 witness: with the default credentials, the first click with the user
\* name " admin" and the password "admin" has created a session and redirects
C30_Witness ==
    /\ DefaultCredentials
    /\ nRequests = 1
    /\ login_out.user = <<" ">> \o DefaultCredential
    /\ login_out.pwd = DefaultCredential
    /\ login_out.logged_in /\ authenticated
    /\ login_out.href = "/"


====
